---------------------------- MODULE Spec2Model ----------------------------
(***************************************************************************)
(* Model of the DailyAsmaBot Telegram bot (src/unnamed/part_001): the      *)
(* progress store, the delivery pipeline, the /start, /lesson, /progress   *)
(* and /help handlers and the cron-driven daily run, as one state machine  *)
(* (Spec); the same with the process stopped and started again             *)
(* (SpecRestart); the startup over an arbitrary progress file              *)
(* (SpecStartup); the registered bot left to its timer, with fairness      *)
(* (SpecLive); the /lesson command from the text of its message            *)
(* (SpecLesson); the bot over input files of the size of the course        *)
(* (SpecLoad); formatChunks iteration by iteration (SpecChunk); and the    *)
(* daily run compared with a snapshot of the records taken at its start    *)
(* (SpecSnapshot).  The scripts of src/scripts are modelled one by one:    *)
(* renameImages (SpecRename), generateLessons with its retries             *)
(* (SpecGenerate) and tts_lessons (SpecTts).                               *)
(*                                                                         *)
(* The bot is a single Node.js process: one handler runs at a time and is  *)
(* suspended only at an `await`.  Every action below is therefore the code *)
(* that runs between two consecutive awaits of one handler, and handlers   *)
(* interleave only at these points.                                        *)
(***************************************************************************)
EXTENDS Integers, Sequences, FiniteSets, TLC

(***************************************************************************)
(* Bounds of the model.                                                    *)
(***************************************************************************)
NumChats == 2
MaxLessons == 2
MaxEvents == 3
NumHandlers == 2
NumRuns == 2
MaxActive == 2
MaxTextLen == 5
MaxDigits == 4
MinEntries == 98
MaxEntries == 101
MaxNumber == 3
MaxExisting == 4
MaxLines == 3

(***************************************************************************)
(* Program constants.  MAX_MESSAGE_LENGTH is 4096 in the source; the model *)
(* scales it to 3 so that texts of a few characters exercise the splitter. *)
(***************************************************************************)
MAX_MESSAGE_LENGTH == 3
TOTAL_AUDIO_FILES == 100
TOTAL_IMAGE_FILES == 99

Chats == 1..NumChats
Handlers == {<<"h", i>> : i \in 1..NumHandlers}
Runs == {<<"r", i>> : i \in 1..NumRuns}
Tasks == Handlers \cup Runs

\* An optional value (null or a value; a missing file or its content) is a
\* sequence of length 0 or 1.
NULL == <<>>
ABSENT == <<>>
Some(v) == <<v>>

Range(seq) == {seq[i] : i \in 1..Len(seq)}

Min(a, b) == IF a <= b THEN a ELSE b

(***************************************************************************)
(* Strings are sequences of one-character strings; offsets are 0-based as  *)
(* in JavaScript.                                                          *)
(***************************************************************************)
Whitespace == {" ", "\n"}

slice(text, from, to) == SubSeq(text, from + 1, to)

lastIndexOf(text, ch, fromIndex) ==
  LET hits == {i \in 0..Min(fromIndex, Len(text) - 1) : text[i + 1] = ch}
  IN  IF hits = {} THEN -1 ELSE CHOOSE i \in hits : \A j \in hits : j <= i

trim(text) ==
  LET solid == {i \in 1..Len(text) : text[i] \notin Whitespace}
  IN  IF solid = {} THEN <<>>
      ELSE SubSeq(text, CHOOSE i \in solid : \A j \in solid : i <= j,
                        CHOOSE i \in solid : \A j \in solid : j <= i)

RECURSIVE chunksFrom(_, _)
chunksFrom(text, start) ==
  IF start >= Len(text) THEN <<>>
  ELSE IF Len(text) - start <= MAX_MESSAGE_LENGTH
       THEN <<trim(slice(text, start, Len(text)))>>
       ELSE LET tentativeEnd == start + MAX_MESSAGE_LENGTH
                byNewline == lastIndexOf(text, "\n", tentativeEnd)
                bySpace == lastIndexOf(text, " ", tentativeEnd)
                splitIndex == IF byNewline > start THEN byNewline
                              ELSE IF bySpace > start THEN bySpace
                              ELSE tentativeEnd
                segment == trim(slice(text, start, splitIndex))
            IN  (IF segment # <<>> THEN <<segment>> ELSE <<>>)
                  \o chunksFrom(text, splitIndex)

formatChunks(text) == SelectSeq(chunksFrom(text, 0), LAMBDA c : c # <<>>)

(***************************************************************************)
(* The input files.  A lessons file is a JSON array of strings; the texts  *)
(* tried are a two-chunk text, a one-chunk text, the empty string and a    *)
(* blank string, and the files tried are the windows of up to MaxLessons   *)
(* texts of their cycle, so that every text occurs at every position.      *)
(* The videos file holds MaxLessons - 1 entries.                           *)
(***************************************************************************)
LessonTexts == << <<"a", "b", " ", "c", "d">>, <<"a">>, <<>>, <<" ">> >>
LessonFiles ==
  {[k \in 1..n |-> LessonTexts[((i + k - 2) % Len(LessonTexts)) + 1]] :
     i \in 1..Len(LessonTexts), n \in 1..MaxLessons}
VideoFiles == {[i \in 1..(MaxLessons - 1) |-> "url"]}

\* Variant that caps the course at the number of audio files only.
loadLessonsAudioCap(data) ==
  SubSeq(data, 1, Min(TOTAL_AUDIO_FILES, Len(data)))

loadLessons(data) ==
  SubSeq(data, 1, Min(Min(TOTAL_IMAGE_FILES, TOTAL_AUDIO_FILES), Len(data)))

loadVideos(data, lessonCount) == SubSeq(data, 1, Min(lessonCount, Len(data)))

VARIABLES
  lessons,    \* the loaded lesson texts (const lessons)
  videos,     \* the loaded video entries (const videos)
  users,      \* progress.users: a function from the registered chats to
              \* their records
  disk,       \* PROGRESS_PATH: ABSENT, or Some(the content of the file)
  tmp,        \* PROGRESS_PATH.tmp: ABSENT, or Some(the content of the file)
  task,       \* the handlers and scheduler runs in progress
  now,        \* the clock, in days: the number of timer firings so far
  cmds,       \* the number of commands received so far
  delivered,  \* history: the <<chat, lesson index>> pairs whose whole text
              \* the /start and scheduled path have sent
  status,     \* the process: "up", "off" (stopped) or "halted" (startup
              \* threw)
  held,       \* history: the <<chat, currentLesson>> pairs the in-memory
              \* store has held
  chunker,    \* one call of formatChunks, iteration by iteration
  argument,   \* the digits of the last "/lesson <digits>" message followed
              \* character by character, or NULL
  files,      \* the arrays in the lessons file and in the videos file
  images,     \* one run of scripts/renameImages.mjs: its directory, the
              \* entries it read and the candidates it has yet to process
  generator,  \* one run of scripts/generateLessons.mjs
  tts         \* one run of scripts/tts_lessons.mjs

vars ==
  <<lessons, videos, users, disk, tmp, task, now, cmds, delivered, status,
    held, chunker, argument, files, images, generator, tts>>

totalLessons == Len(lessons)

NoUsers == [c \in {} |-> NULL]

(***************************************************************************)
(* The content of the progress file.                                       *)
(*   json    what JSON.parse makes of it: "invalid" (it throws), "null",   *)
(*           "number", "string", "array" or "object"                       *)
(*   field   for an object, its `users` property: "missing", "null",       *)
(*           "number", "string", "array" (the empty array) or "map"        *)
(*   users   for the field "map", the records by chat                      *)
(***************************************************************************)
Content(json, field, u) == [json |-> json, field |-> field, users |-> u]

\* JSON.stringify(progress) (line 144).
stringify(u) == Content("object", "map", u)

(***************************************************************************)
(* A task is one running handler or scheduler run.                         *)
(*   kind      "idle", "start" (/start), "lesson" (/lesson), "progress"    *)
(*             (/progress), "help" (/help), "tick" (run)                   *)
(*   pc        the await the task is suspended at                          *)
(*   chat, lesson   the arguments of the delivery in progress (0-based)    *)
(*   viaUser   the delivery was entered through sendLessonToUser           *)
(*   sent      text chunks sent so far in this delivery                    *)
(*   queue     the entries of userEntries the run has not visited yet      *)
(*   attempted, failed   history of the run: chats it called               *)
(*             sendLessonToUser for, and those whose delivery was caught   *)
(*   payload   the JSON text handed to writeFile by saveProgress           *)
(*   report    the progress report being sent by /progress                 *)
(***************************************************************************)
IdleTask ==
  [kind |-> "idle", pc |-> "idle", chat |-> 0, lesson |-> 0,
   viaUser |-> FALSE, sent |-> 0, queue |-> <<>>,
   attempted |-> {}, failed |-> {}, payload |-> NoUsers, report |-> NULL,
   snapshot |-> NoUsers]

\* formatChunks is not being followed.
NoCall == [pc |-> "idle", text |-> <<>>, start |-> 0, chunks |-> <<>>,
           iterations |-> 0]

\* The scripts are not being followed.
NoRename == [pc |-> "idle", dir |-> {}, entries |-> <<>>, candidates |-> <<>>]

NoGenerate ==
  [pc |-> "idle", resume |-> FALSE, existing |-> ABSENT, file |-> ABSENT,
   tmpFile |-> ABSENT, lessons |-> <<>>, day |-> 0, attempt |-> 0,
   requests |-> 0]

NoTts ==
  [pc |-> "idle", overwrite |-> FALSE, lines |-> <<>>, rest |-> <<>>,
   idx |-> 0, existing |-> <<>>, out |-> <<>>, attempt |-> 0, asked |-> {},
   failed |-> {}]

ScriptsIdle ==
  /\ images = NoRename
  /\ generator = NoGenerate
  /\ tts = NoTts

Init ==
  /\ files \in [lessons : LessonFiles, videos : VideoFiles]
  /\ lessons = loadLessons(files.lessons)
  /\ videos = loadVideos(files.videos, Len(lessons))
  /\ users = NoUsers
  /\ disk = ABSENT
  /\ tmp = ABSENT
  /\ task = [t \in Tasks |-> IdleTask]
  /\ now = 0
  /\ cmds = 0
  /\ delivered = {}
  /\ status = "up"
  /\ held = {}
  /\ chunker = NoCall
  /\ argument = NULL
  /\ ScriptsIdle

(***************************************************************************)
(* ensureUserState (lines 150-162).                                        *)
(***************************************************************************)
NewUserState == [currentLesson |-> 0, lastSentAt |-> NULL, joinedAt |-> now]

\* Variant that stores a fresh record whether or not one exists.
ensureUserStateReset(u, chat) == (chat :> NewUserState) @@ u

ensureUserState(u, chat) ==
  IF chat \notin DOMAIN u THEN (chat :> NewUserState) @@ u ELSE u

(***************************************************************************)
(* lessons[lessonIndex] and videos[lessonIndex]; undefined reads as the    *)
(* falsy value.                                                            *)
(***************************************************************************)
lessonText(lessonIndex) ==
  IF lessonIndex + 1 \in DOMAIN lessons THEN lessons[lessonIndex + 1] ELSE <<>>

hasVideo(lessonIndex) == lessonIndex + 1 \in DOMAIN videos

messageChunks(lessonIndex) == formatChunks(lessonText(lessonIndex))

(***************************************************************************)
(* Where a task goes when the call it is in ends.  Each operator yields    *)
(* [t |-> the task's new record, u |-> the new progress.users].            *)
(***************************************************************************)

\* The handler or run ends: it returned, or an exception escaped it (an
\* unhandled rejection of a command handler; line 356 for a run).
Ended(u) == [t |-> IdleTask, u |-> u]

\* sendLessonToUser has returned to its caller: /start goes on to the help
\* message (line 265), a run to its pacing delay (line 349).
Returned(rec, u) ==
  IF rec.kind = "tick" THEN [t |-> [rec EXCEPT !.pc = "sleep"], u |-> u]
  ELSE IF rec.kind = "start" THEN [t |-> [rec EXCEPT !.pc = "help"], u |-> u]
  ELSE Ended(u)

\* Variant without the catch: the exception escapes to the caller.
OnDeliveryErrorUncaught(rec, u) == Ended(u)

\* Variant in which the catch calls sendLessonToUser again at once.
OnDeliveryErrorRetries(rec, u) ==
  [t |-> [rec EXCEPT !.pc = "image", !.sent = 0,
                     !.failed = IF rec.kind = "tick"
                                THEN rec.failed \cup {rec.chat}
                                ELSE rec.failed],
   u |-> u]

\* The catch of sendLessonToUser (lines 247-249): log and return.
OnDeliveryError(rec, u) ==
  Returned([rec EXCEPT !.failed = IF rec.kind = "tick"
                                  THEN rec.failed \cup {rec.chat}
                                  ELSE rec.failed], u)

\* An exception leaves sendLessonAssets, or the save of line 246 throws.
AssetsThrew(rec, u) ==
  IF rec.viaUser /\ rec.lesson < totalLessons
  THEN OnDeliveryError(rec, u)
  ELSE Ended(u)

\* Variant that takes the 1-based lesson number for the index and does not
\* clamp.
NextLessonValueOneBased(lessonIndex) == (lessonIndex + 1) + 1

\* Line 244: the value stored in currentLesson after a delivery.
NextLessonValue(lessonIndex) == Min(lessonIndex + 1, totalLessons)

\* Variant that advances currentLesson and leaves lastSentAt as it is.
AdvanceWithoutStamp(rec, u) ==
  LET u2 == [u EXCEPT ![rec.chat].currentLesson = NextLessonValue(rec.lesson)]
  IN  [t |-> [rec EXCEPT !.pc = "write", !.payload = u2], u |-> u2]

\* Lines 244-246: record the delivery and start saveProgress, which
\* stringifies the store and calls writeFile before its first await.
Advance(rec, u) ==
  LET u2 == [u EXCEPT ![rec.chat].currentLesson = NextLessonValue(rec.lesson),
                      ![rec.chat].lastSentAt = Some(now)]
  IN  [t |-> [rec EXCEPT !.pc = "write", !.payload = u2], u |-> u2]

\* sendLessonAssets returns normally (lines 174 and 226).
AssetsReturned(rec, u) ==
  IF rec.viaUser THEN Advance(rec, u) ELSE Ended(u)

\* sendLessonAssets up to its first await (lines 165-180).
BeginAssets(rec, u) ==
  [t |-> [rec EXCEPT !.sent = 0,
                     !.pc = IF lessonText(rec.lesson) = <<>>
                            THEN "unavail" ELSE "image"],
   u |-> u]

\* sendLessonToUser up to its first await (lines 229-243).
BeginSend(rec, u) ==
  LET u2 == ensureUserState(u, rec.chat)
      r2 == [rec EXCEPT !.viaUser = TRUE]
  IN  IF rec.lesson >= totalLessons
      THEN [t |-> [r2 EXCEPT !.sent = 0, !.pc = "congrats"],
            u |-> u2]
      ELSE BeginAssets(r2, u2)

\* After the text loop (lines 195-199): on to the audio step.
AfterText(rec) == [rec EXCEPT !.pc = "audio"]

\* Variant that goes from the image straight to the audio.
AfterImageSkipsText(rec) == AfterText(rec)

\* After the image step (lines 193-196): the first chunk, if there is one.
AfterImage(rec) ==
  IF messageChunks(rec.lesson) = <<>> THEN AfterText(rec)
  ELSE [rec EXCEPT !.pc = "text"]

\* The <<chat, currentLesson>> pairs of a store.
Holds(u) == {<<c, u[c].currentLesson>> : c \in DOMAIN u}

Set(t, res) ==
  /\ task' = [task EXCEPT ![t] = res.t]
  /\ users' = res.u
  /\ held' = held \cup Holds(res.u)

Constant ==
  UNCHANGED <<lessons, videos, status, chunker, files, images, generator,
              tts>>

Frame == Constant /\ UNCHANGED argument

Lowest(slots, t) ==
  /\ status = "up"
  /\ t \in slots
  /\ task[t].kind = "idle"
  /\ Cardinality({o \in Tasks : task[o].kind # "idle"}) < MaxActive
  /\ \A o \in slots : task[o].kind = "idle" => o[2] >= t[2]

\* Variant in which the handler does not look for an existing record and
\* always goes the way of a first registration.
StartWithoutCheck(h, chat) ==
  /\ Lowest(Handlers, h)
  /\ cmds + now < MaxEvents
  /\ cmds' = cmds + 1
  /\ LET rec == [IdleTask EXCEPT !.kind = "start", !.chat = chat]
         u2 == ensureUserState(users, chat)
     IN  Set(h, [t |-> [rec EXCEPT !.pc = "regWrite", !.payload = u2],
                 u |-> u2])
  /\ UNCHANGED <<disk, tmp, now, delivered>>
  /\ Frame

(***************************************************************************)
(* bot.onText(/start) (lines 252-277), up to its first await.              *)
(***************************************************************************)
Start(h, chat) ==
  /\ Lowest(Handlers, h)
  /\ cmds + now < MaxEvents
  /\ cmds' = cmds + 1
  /\ LET rec == [IdleTask EXCEPT !.kind = "start", !.chat = chat] IN
     IF chat \notin DOMAIN users
     THEN LET u2 == ensureUserState(users, chat) IN
          Set(h, [t |-> [rec EXCEPT !.pc = "regWrite", !.payload = u2],
                  u |-> u2])
     ELSE Set(h, [t |-> [rec EXCEPT !.pc = "back"], u |-> users])
  /\ UNCHANGED <<disk, tmp, now, delivered>>
  /\ Frame

(***************************************************************************)
(* bot.onText(/lesson n) (lines 308-322), up to its first await.           *)
(***************************************************************************)
\* Lines 309-320: the handler, for the number parsed from the message.
lessonHandler(h, chat, lessonRequested) ==
  /\ Lowest(Handlers, h)
  /\ cmds + now < MaxEvents
  /\ cmds' = cmds + 1
  /\ LET rec == [IdleTask EXCEPT !.kind = "lesson", !.chat = chat] IN
     IF lessonRequested < 1 \/ lessonRequested > totalLessons
     THEN Set(h, [t |-> [rec EXCEPT !.pc = "range"], u |-> users])
     ELSE Set(h, [t |-> [rec EXCEPT !.pc = "ack",
                                    !.lesson = lessonRequested - 1],
                  u |-> users])
  /\ UNCHANGED <<disk, tmp, now, delivered>>

LessonCmd(h, chat, lessonRequested) ==
  /\ lessonHandler(h, chat, lessonRequested)
  /\ Frame

\* Lines 292-303: what the progress report says.
progressLines(existingState) ==
  [received |-> existingState.currentLesson,
   total |-> totalLessons,
   completed |-> existingState.currentLesson >= totalLessons,
   nextLessonNumber |-> Min(existingState.currentLesson + 1, totalLessons),
   lastSentAt |-> existingState.lastSentAt]

\* Variant in which the query stamps the record it reports on.
ProgressCmdStamps(h, chat) ==
  /\ Lowest(Handlers, h)
  /\ cmds + now < MaxEvents
  /\ cmds' = cmds + 1
  /\ LET rec == [IdleTask EXCEPT !.kind = "progress", !.chat = chat] IN
     IF chat \notin DOMAIN users
     THEN Set(h, [t |-> [rec EXCEPT !.pc = "noprogress"], u |-> users])
     ELSE Set(h, [t |-> [rec EXCEPT
                           !.pc = "report",
                           !.report = Some(progressLines(users[chat]))],
                  u |-> [users EXCEPT ![chat].lastSentAt = Some(now + 1)]])
  /\ UNCHANGED <<disk, tmp, now, delivered>>
  /\ Frame

(***************************************************************************)
(* bot.onText(/progress) (lines 279-306), up to its await.                 *)
(***************************************************************************)
ProgressCmd(h, chat) ==
  /\ Lowest(Handlers, h)
  /\ cmds + now < MaxEvents
  /\ cmds' = cmds + 1
  /\ LET rec == [IdleTask EXCEPT !.kind = "progress", !.chat = chat] IN
     IF chat \notin DOMAIN users
     THEN Set(h, [t |-> [rec EXCEPT !.pc = "noprogress"], u |-> users])
     ELSE Set(h, [t |-> [rec EXCEPT
                           !.pc = "report",
                           !.report = Some(progressLines(users[chat]))],
                  u |-> users])
  /\ UNCHANGED <<disk, tmp, now, delivered>>
  /\ Frame

(***************************************************************************)
(* bot.onText(/help) (lines 324-326), up to its await.                     *)
(***************************************************************************)
HelpCmd(h, chat) ==
  /\ Lowest(Handlers, h)
  /\ cmds + now < MaxEvents
  /\ cmds' = cmds + 1
  /\ Set(h, [t |-> [IdleTask EXCEPT !.kind = "help", !.chat = chat,
                                    !.pc = "help"],
             u |-> users])
  /\ UNCHANGED <<disk, tmp, now, delivered>>
  /\ Frame

\* Variant in which the resend calls sendLessonToUser.
ResendDeliverTracked(rec, u) == BeginSend(rec, u)

\* Line 321: the resend goes straight to sendLessonAssets.
ResendDeliver(rec, u) == BeginAssets(rec, u)

(***************************************************************************)
(* A handler resumes after a single sendMessage outside the delivery:      *)
(* the registration welcome (260), the welcome back (269), the /lesson     *)
(* acknowledgement (320), the help text (265, 276) and the range error     *)
(* (313), the progress report (305), the no-progress notice (285) and the  *)
(* /help reply (325).  A send that throws ends the handler.                *)
(***************************************************************************)
StepMessage(h) ==
  /\ task[h].pc \in {"welcome", "back", "ack", "help", "range", "report",
                     "noprogress"}
  /\ \E ok \in BOOLEAN :
       LET rec == task[h] IN
       Set(h, IF ~ok \/ rec.pc \in {"help", "range", "report", "noprogress"}
              THEN Ended(users)
              ELSE IF rec.pc = "welcome"
                   THEN BeginSend([rec EXCEPT !.lesson = 0], users)
              ELSE IF rec.pc = "back"
                   THEN [t |-> [rec EXCEPT !.pc = "help"], u |-> users]
              ELSE ResendDeliver(rec, users))
  /\ UNCHANGED <<disk, tmp, now, cmds, delivered>>
  /\ Frame

(***************************************************************************)
(* sendLessonAssets, one action per await.                                 *)
(***************************************************************************)

\* Lines 169-175 and 232-239: the single notice sent in place of a lesson.
StepNotice(t) ==
  /\ task[t].pc \in {"unavail", "congrats"}
  /\ \E ok \in BOOLEAN :
       LET rec == task[t] IN
       Set(t, IF ~ok THEN AssetsThrew(rec, users)
              ELSE IF rec.pc = "unavail" THEN AssetsReturned(rec, users)
              ELSE LET u2 == [users EXCEPT
                                ![rec.chat].currentLesson = totalLessons]
                   IN  [t |-> [rec EXCEPT !.pc = "write", !.payload = u2],
                        u |-> u2])
  /\ UNCHANGED <<disk, tmp, now, cmds, delivered>>
  /\ Frame

\* Lines 179-191: fs.access and sendPhoto, taken as one step; the file may
\* be missing, and every error is swallowed.
StepImage(t) ==
  /\ task[t].pc = "image"
  /\ \E res \in {"sent", "missing", "failed"} :
       Set(t, [t |-> AfterImage(task[t]), u |-> users])
  /\ UNCHANGED <<disk, tmp, now, cmds, delivered>>
  /\ Frame

\* Lines 195-197: one chunk per await; an error leaves sendLessonAssets.
StepText(t) ==
  /\ task[t].pc = "text"
  /\ LET rec == task[t]
         last == rec.sent + 1 = Len(messageChunks(rec.lesson))
     IN  \/ /\ Set(t, [t |-> IF last
                              THEN AfterText([rec EXCEPT !.sent = rec.sent + 1])
                              ELSE [rec EXCEPT !.sent = rec.sent + 1],
                        u |-> users])
            /\ delivered' =
                 IF last /\ rec.viaUser
                 THEN delivered \cup {<<rec.chat, rec.lesson>>}
                 ELSE delivered
         \/ /\ Set(t, AssetsThrew(rec, users))
            /\ UNCHANGED delivered
  /\ UNCHANGED <<disk, tmp, now, cmds>>
  /\ Frame

\* Lines 202-218: fs.access and sendAudio, taken as one step; the file may
\* be missing, and every error is swallowed.
StepAudio(t) ==
  /\ task[t].pc = "audio"
  /\ \E res \in {"sent", "missing", "failed"} :
       LET rec == task[t] IN
       Set(t, IF hasVideo(rec.lesson)
              THEN [t |-> [rec EXCEPT !.pc = "video"], u |-> users]
              ELSE AssetsReturned(rec, users))
  /\ UNCHANGED <<disk, tmp, now, cmds, delivered>>
  /\ Frame

\* Line 224: the video message is sent outside any try.
StepVideo(t) ==
  /\ task[t].pc = "video"
  /\ \E ok \in BOOLEAN :
       LET rec == task[t] IN
       Set(t, IF ok THEN AssetsReturned(rec, users)
              ELSE AssetsThrew(rec, users))
  /\ UNCHANGED <<disk, tmp, now, cmds, delivered>>
  /\ Frame

(***************************************************************************)
(* saveProgress (lines 142-146): writeFile to the temporary file, then     *)
(* rename.  The registration save (line 259) is outside any try, the       *)
(* delivery save (line 246) inside the try of sendLessonToUser.  The text  *)
(* written is the one stringified when saveProgress was called; it         *)
(* reaches the temporary file in one step when writeFile completes.        *)
(* Either call may fail; rename fails when the temporary file is gone.     *)
(***************************************************************************)
SaveThrew(rec, u) ==
  IF rec.pc \in {"regWrite", "regRename"} THEN Ended(u)
  ELSE AssetsThrew(rec, u)

SaveReturned(rec, u) ==
  IF rec.pc \in {"regWrite", "regRename"}
  THEN [t |-> [rec EXCEPT !.pc = "welcome"], u |-> u]
  ELSE Returned(rec, u)

StepWrite(t) ==
  /\ task[t].pc \in {"regWrite", "write"}
  /\ LET rec == task[t] IN
     \/ /\ tmp' = Some(stringify(rec.payload))
        /\ Set(t, [t |-> [rec EXCEPT !.pc = IF rec.pc = "regWrite"
                                            THEN "regRename" ELSE "rename"],
                   u |-> users])
     \/ /\ Set(t, SaveThrew(rec, users))
        /\ UNCHANGED tmp
  /\ UNCHANGED <<disk, now, cmds, delivered>>
  /\ Frame

StepRename(t) ==
  /\ task[t].pc \in {"regRename", "rename"}
  /\ LET rec == task[t] IN
     \/ /\ tmp # ABSENT
        /\ disk' = tmp
        /\ tmp' = ABSENT
        /\ Set(t, SaveReturned(rec, users))
     \/ /\ Set(t, SaveThrew(rec, users))
        /\ UNCHANGED <<disk, tmp>>
  /\ UNCHANGED <<now, cmds, delivered>>
  /\ Frame

(***************************************************************************)
(* deliverDailyLessons (lines 328-351) and the cron callback (353-361).    *)
(***************************************************************************)

\* Object.entries(progress.users): integer-like keys in ascending order.
RECURSIVE Ascending(_)
Ascending(S) ==
  IF S = {} THEN <<>>
  ELSE LET m == CHOOSE x \in S : \A y \in S : x <= y
       IN  <<m>> \o Ascending(S \ {m})

userEntries == Ascending(DOMAIN users)

\* Lines 340-346: an entry is passed over unless its lesson is pending.
IsDue(u, chat) == u[chat].currentLesson < totalLessons

\* Variant that passes the 1-based lesson number as the lesson index.
VisitNextOneBased(rec, u) ==
  LET due == {i \in 1..Len(rec.queue) : IsDue(u, rec.queue[i])} IN
  IF due = {} THEN Ended(u)
  ELSE LET i == CHOOSE x \in due : \A y \in due : x <= y
           chat == rec.queue[i]
       IN  BeginSend([rec EXCEPT !.chat = chat,
                                 !.lesson = u[chat].currentLesson + 1,
                                 !.queue = SubSeq(rec.queue, i + 1,
                                                  Len(rec.queue)),
                                 !.attempted = rec.attempted \cup {chat}],
                     u)

\* Variant that serves the entries due when the timer fired, each with the
\* lesson index its record held then.
VisitNextAsSnapshot(rec, u) ==
  LET due == {i \in 1..Len(rec.queue) :
                rec.snapshot[rec.queue[i]] < totalLessons} IN
  IF due = {} THEN Ended(u)
  ELSE LET i == CHOOSE x \in due : \A y \in due : x <= y
           chat == rec.queue[i]
       IN  BeginSend([rec EXCEPT !.chat = chat,
                                 !.lesson = rec.snapshot[chat],
                                 !.queue = SubSeq(rec.queue, i + 1,
                                                  Len(rec.queue)),
                                 !.attempted = rec.attempted \cup {chat}],
                     u)

\* Lines 339-348: pass over the entries that are not due and call
\* sendLessonToUser for the first that is; return when none is left.
VisitNext(rec, u) ==
  LET due == {i \in 1..Len(rec.queue) : IsDue(u, rec.queue[i])} IN
  IF due = {} THEN Ended(u)
  ELSE LET i == CHOOSE x \in due : \A y \in due : x <= y
           chat == rec.queue[i]
       IN  BeginSend([rec EXCEPT !.chat = chat,
                                 !.lesson = u[chat].currentLesson,
                                 !.queue = SubSeq(rec.queue, i + 1,
                                                  Len(rec.queue)),
                                 !.attempted = rec.attempted \cup {chat}],
                     u)

\* The timer fires: nothing keeps a run from starting while another runs.
Tick(r) ==
  /\ Lowest(Runs, r)
  /\ cmds + now < MaxEvents
  /\ now' = now + 1
  /\ Set(r, VisitNext([IdleTask EXCEPT !.kind = "tick",
                                        !.queue = userEntries], users))
  /\ UNCHANGED <<disk, tmp, cmds, delivered>>
  /\ Frame

\* Line 349: the pacing delay ends and the loop goes on.
StepSleep(r) ==
  /\ task[r].pc = "sleep"
  /\ Set(r, VisitNext(task[r], users))
  /\ UNCHANGED <<disk, tmp, now, cmds, delivered>>
  /\ Frame

Next ==
  \/ \E h \in Handlers, chat \in Chats : Start(h, chat)
  \/ \E h \in Handlers, chat \in Chats, n \in 0..(MaxLessons + 1) :
       LessonCmd(h, chat, n)
  \/ \E h \in Handlers, chat \in Chats : ProgressCmd(h, chat)
  \/ \E h \in Handlers, chat \in Chats : HelpCmd(h, chat)
  \/ \E h \in Handlers : StepMessage(h)
  \/ \E t \in Tasks : StepNotice(t)
  \/ \E t \in Tasks : StepImage(t)
  \/ \E t \in Tasks : StepText(t)
  \/ \E t \in Tasks : StepAudio(t)
  \/ \E t \in Tasks : StepVideo(t)
  \/ \E t \in Tasks : StepWrite(t)
  \/ \E t \in Tasks : StepRename(t)
  \/ \E r \in Runs : Tick(r)
  \/ \E r \in Runs : StepSleep(r)

Spec == Init /\ [][Next]_vars

\* The next step of task t, whichever await it is suspended at.
TaskStep(t) ==
  \/ StepMessage(t) \/ StepNotice(t) \/ StepImage(t) \/ StepText(t)
  \/ StepAudio(t) \/ StepVideo(t) \/ StepWrite(t) \/ StepRename(t)
  \/ StepSleep(t)

(***************************************************************************)
(* Startup (lines 127-140) and the stop of the process.                    *)
(***************************************************************************)

\* readJsonFile (lines 48-59): the fallback when the file is missing; the
\* SyntaxError of JSON.parse is thrown on.
readJsonFile(file, fallback) ==
  IF file = ABSENT THEN [threw |-> FALSE, value |-> fallback]
  ELSE IF file[1].json = "invalid" THEN [threw |-> TRUE, value |-> fallback]
  ELSE [threw |-> FALSE, value |-> file[1]]

\* Lines 132-134: anything but a plain object is a corrupted file.
Corrupted(value) == value.json # "object"

\* Lines 136-138: progress.users, replaced by {} when it is falsy or not an
\* object; an array is an object and is kept (here the empty array, which
\* has no entries).
progressUsers(value) == IF value.field = "map" THEN value.users ELSE NoUsers

\* The store a start of the process would take from a file.
StoredUsers(file) ==
  progressUsers(readJsonFile(file, stringify(NoUsers)).value)

\* The process is killed, or the machine stops: every handler and run is
\* gone with the in-memory store; the files stay as they are.
Stop ==
  /\ status = "up"
  /\ status' = "off"
  /\ task' = [t \in Tasks |-> IdleTask]
  /\ users' = NoUsers
  /\ UNCHANGED <<lessons, videos, disk, tmp, now, cmds, delivered, held,
                 chunker, argument, files, images, generator, tts>>

\* The process starts: lines 127-140.  The lessons and videos files are
\* the ones of the first start.
Startup ==
  /\ status = "off"
  /\ LET read == readJsonFile(disk, stringify(NoUsers)) IN
     IF read.threw \/ Corrupted(read.value)
     THEN /\ status' = "halted"
          /\ UNCHANGED <<users, held>>
     ELSE /\ status' = "up"
          /\ users' = progressUsers(read.value)
          /\ held' = held \cup Holds(progressUsers(read.value))
  /\ UNCHANGED <<lessons, videos, disk, tmp, task, now, cmds, delivered,
                 chunker, argument, files, images, generator, tts>>

NextRestart == Next \/ Stop \/ Startup

SpecRestart == Init /\ [][NextRestart]_vars

(***************************************************************************)
(* The progress files a start of the process may find: a file that is not  *)
(* JSON, the JSON values that are not plain objects, the objects whose     *)
(* `users` property is missing or not a map of records, and the files      *)
(* saveProgress writes.                                                    *)
(***************************************************************************)
StoredRecords ==
  {[currentLesson |-> k,
    lastSentAt |-> IF k = 0 THEN NULL ELSE Some(0),
    joinedAt |-> 0] : k \in 0..MaxLessons}

ProgressMaps == UNION {[S -> StoredRecords] : S \in SUBSET Chats}

ProgressFiles ==
  {Content(json, "missing", NoUsers) :
     json \in {"invalid", "null", "number", "string", "array"}}
  \cup {Content("object", field, NoUsers) :
          field \in {"missing", "null", "number", "string", "array"}}
  \cup {stringify(u) : u \in ProgressMaps}

\* The process is about to start, with or without a progress file.
InitStartup ==
  /\ files \in [lessons : LessonFiles, videos : VideoFiles]
  /\ lessons = loadLessons(files.lessons)
  /\ videos = loadVideos(files.videos, Len(lessons))
  /\ users = NoUsers
  /\ disk \in {ABSENT} \cup {Some(file) : file \in ProgressFiles}
  /\ tmp = ABSENT
  /\ task = [t \in Tasks |-> IdleTask]
  /\ now = 0
  /\ cmds = 0
  /\ delivered = {}
  /\ status = "off"
  /\ held = {}
  /\ chunker = NoCall
  /\ argument = NULL
  /\ ScriptsIdle

\* The start, and progress queries to the bot once it is up.
NextStartup ==
  \/ Startup
  \/ \E h \in Handlers, chat \in Chats : ProgressCmd(h, chat)
  \/ \E h \in Handlers : StepMessage(h)

SpecStartup == InitStartup /\ [][NextStartup]_vars

(***************************************************************************)
(* The bot left to its timer: every chat is registered, none has a lesson  *)
(* yet, no command arrives, and the timer fires for ever, each time after  *)
(* the run before it has finished.  The clock has stopped counting at      *)
(* MaxEvents.                                                              *)
(***************************************************************************)
InitLive ==
  /\ files \in [lessons : LessonFiles, videos : VideoFiles]
  /\ lessons = loadLessons(files.lessons)
  /\ videos = loadVideos(files.videos, Len(lessons))
  /\ now = MaxEvents
  /\ users = [c \in Chats |-> NewUserState]
  /\ disk = Some(stringify(users))
  /\ tmp = ABSENT
  /\ task = [t \in Tasks |-> IdleTask]
  /\ cmds = NumChats
  /\ delivered = {}
  /\ status = "up"
  /\ held = Holds(users)
  /\ chunker = NoCall
  /\ argument = NULL
  /\ ScriptsIdle

\* The cron callback (lines 353-361), with the capped clock.
TickOn(r) ==
  /\ Lowest(Runs, r)
  /\ \A o \in Runs : task[o].kind = "idle"
  /\ now' = Min(now + 1, MaxEvents)
  /\ Set(r, VisitNext([IdleTask EXCEPT !.kind = "tick",
                                        !.queue = userEntries], users))
  /\ UNCHANGED <<disk, tmp, cmds, delivered>>
  /\ Frame

NextLive ==
  \/ \E r \in Runs : TickOn(r)
  \/ \E r \in Runs : StepNotice(r)
  \/ \E r \in Runs : StepImage(r)
  \/ \E r \in Runs : StepText(r)
  \/ \E r \in Runs : StepAudio(r)
  \/ \E r \in Runs : StepVideo(r)
  \/ \E r \in Runs : StepWrite(r)
  \/ \E r \in Runs : StepRename(r)
  \/ \E r \in Runs : StepSleep(r)

\* Run r sends chunk i + 1 of its lesson text and the send succeeds.
TextSent(r, i) ==
  /\ StepText(r)
  /\ task[r].sent = i
  /\ task'[r].sent = i + 1

\* Run r sends the notice of lines 169-175 and the send succeeds.
NoticeSent(r) ==
  /\ StepNotice(r)
  /\ task'[r].pc = "write"

ChunkIndexes ==
  UNION {0..(Len(formatChunks(LessonTexts[i])) - 1) :
           i \in 1..Len(LessonTexts)}

\* The timer keeps firing, every await of a run ends, and a text send or
\* a notice that is tried again and again succeeds in the end.  Nothing
\* is assumed of the image, audio and video sends.
FairLive ==
  /\ \A r \in Runs : WF_vars(TickOn(r))
  /\ \A r \in Runs : WF_vars(TaskStep(r))
  /\ \A r \in Runs : SF_vars(NoticeSent(r))
  /\ \A r \in Runs : \A i \in ChunkIndexes : SF_vars(TextSent(r, i))

SpecLive == InitLive /\ [][NextLive]_vars /\ FairLive

(***************************************************************************)
(* The registrations and the timer runs, with each run remembering the     *)
(* currentLesson every record held when the run took its entries (line     *)
(* 329): `snapshot` is history, the code keeps only the entries, whose     *)
(* state objects are the live records.                                     *)
(***************************************************************************)
TickSnapshot(r) ==
  /\ Lowest(Runs, r)
  /\ cmds + now < MaxEvents
  /\ now' = now + 1
  /\ Set(r, VisitNext([IdleTask EXCEPT
                         !.kind = "tick",
                         !.queue = userEntries,
                         !.snapshot = [c \in DOMAIN users |->
                                         users[c].currentLesson]],
                      users))
  /\ UNCHANGED <<disk, tmp, cmds, delivered>>
  /\ Frame

NextSnapshot ==
  \/ \E h \in Handlers, chat \in Chats : Start(h, chat)
  \/ \E h \in Handlers : StepMessage(h)
  \/ \E t \in Tasks : StepNotice(t)
  \/ \E t \in Tasks : StepImage(t)
  \/ \E t \in Tasks : StepText(t)
  \/ \E t \in Tasks : StepAudio(t)
  \/ \E t \in Tasks : StepVideo(t)
  \/ \E t \in Tasks : StepWrite(t)
  \/ \E t \in Tasks : StepRename(t)
  \/ \E r \in Runs : TickSnapshot(r)
  \/ \E r \in Runs : StepSleep(r)

SpecSnapshot == Init /\ [][NextSnapshot]_vars

(***************************************************************************)
(* The /lesson command from the text of the message: the pattern           *)
(* /^\/lesson\s+(\d{1,3})$/ of line 308 and Number.parseInt of line 310,   *)
(* for the digit strings of up to MaxDigits digits over 0, 1 and 9.        *)
(***************************************************************************)
Digits == <<"0", "1", "9">>

DigitValue(d) == IF d = "0" THEN 0 ELSE IF d = "1" THEN 1 ELSE 9

LessonArguments ==
  UNION {[1..n -> {Digits[i] : i \in 1..Len(Digits)}] : n \in 1..MaxDigits}

\* The group (\d{1,3}) matches one to three digits and no more.
matchesLesson(digits) == Len(digits) >= 1 /\ Len(digits) <= 3

RECURSIVE parseInt(_)
parseInt(digits) ==
  IF digits = <<>> THEN 0
  ELSE 10 * parseInt(SubSeq(digits, 1, Len(digits) - 1))
         + DigitValue(digits[Len(digits)])

\* A message "/lesson <digits>" arrives: the handler runs when the pattern
\* matches, and nothing runs when it does not.
LessonMessage(h, chat, digits) ==
  /\ argument' = Some(digits)
  /\ IF matchesLesson(digits)
     THEN lessonHandler(h, chat, parseInt(digits))
     ELSE /\ Lowest(Handlers, h)
          /\ cmds + now < MaxEvents
          /\ cmds' = cmds + 1
          /\ UNCHANGED <<users, disk, tmp, task, now, delivered, held>>
  /\ Constant

NextLesson ==
  \/ \E h \in Handlers, chat \in Chats, digits \in LessonArguments :
       LessonMessage(h, chat, digits)
  \/ \E h \in Handlers : StepMessage(h)
  \/ \E h \in Handlers : StepNotice(h)
  \/ \E h \in Handlers : StepImage(h)
  \/ \E h \in Handlers : StepText(h)
  \/ \E h \in Handlers : StepAudio(h)
  \/ \E h \in Handlers : StepVideo(h)

SpecLesson == Init /\ [][NextLesson]_vars

(***************************************************************************)
(* The bot with input files of the size of the course: lessons files and   *)
(* videos files of MinEntries to MaxEntries entries around the two caps of *)
(* lines 32-33, one subscriber whose stored progress is near the end of    *)
(* the course, timer runs one after another, and /lesson for the numbers   *)
(* around the caps.  Every lesson is a one-chunk text, except lesson       *)
(* MinEntries, which is the empty string.                                  *)
(***************************************************************************)
FullLessonFiles ==
  {[k \in 1..n |-> IF k = MinEntries THEN <<>> ELSE <<"a">>] :
     n \in MinEntries..MaxEntries}

FullVideoFiles == {[k \in 1..n |-> "url"] : n \in MinEntries..MaxEntries}

LateRecords(n) ==
  {[currentLesson |-> k, lastSentAt |-> Some(0), joinedAt |-> 0] :
     k \in (MinEntries - 1)..n}

InitLoad ==
  /\ files \in [lessons : FullLessonFiles, videos : FullVideoFiles]
  /\ lessons = loadLessons(files.lessons)
  /\ videos = loadVideos(files.videos, Len(lessons))
  /\ \E state \in LateRecords(Len(lessons)) : users = [c \in {1} |-> state]
  /\ disk = Some(stringify(users))
  /\ tmp = ABSENT
  /\ task = [t \in Tasks |-> IdleTask]
  /\ now = 0
  /\ cmds = 0
  /\ delivered = {}
  /\ status = "up"
  /\ held = Holds(users)
  /\ chunker = NoCall
  /\ argument = NULL
  /\ ScriptsIdle

NextLoad ==
  \/ NextLive
  \/ \E h \in Handlers, chat \in Chats, n \in MinEntries..MaxEntries :
       LessonCmd(h, chat, n)
  \/ \E h \in Handlers : StepMessage(h)
  \/ \E h \in Handlers : StepNotice(h)
  \/ \E h \in Handlers : StepImage(h)
  \/ \E h \in Handlers : StepText(h)
  \/ \E h \in Handlers : StepAudio(h)
  \/ \E h \in Handlers : StepVideo(h)

SpecLoad == InitLoad /\ [][NextLoad]_vars

(***************************************************************************)
(* formatChunks (lines 92-125) followed iteration by iteration, for every  *)
(* text of up to MaxTextLen characters over two letters, the space and the *)
(* newline.                                                                *)
(***************************************************************************)
ChunkAlphabet == {"a", "b", " ", "\n"}

Texts == UNION {[1..n -> ChunkAlphabet] : n \in 0..MaxTextLen}

\* Variant without the hard cut: the offset stays when no break is found.
splitIndexNoHardCut(text, start) ==
  LET tentativeEnd == start + MAX_MESSAGE_LENGTH
      byNewline == lastIndexOf(text, "\n", tentativeEnd)
      bySpace == lastIndexOf(text, " ", tentativeEnd)
  IN  IF byNewline > start THEN byNewline
      ELSE IF bySpace > start THEN bySpace
      ELSE start

\* Variant that looks for a space before it looks for a newline.
splitIndexSpaceFirst(text, start) ==
  LET tentativeEnd == start + MAX_MESSAGE_LENGTH
      byNewline == lastIndexOf(text, "\n", tentativeEnd)
      bySpace == lastIndexOf(text, " ", tentativeEnd)
  IN  IF bySpace > start THEN bySpace
      ELSE IF byNewline > start THEN byNewline
      ELSE tentativeEnd

\* Lines 104-113: where the text is cut when the rest does not fit.
splitIndexOf(text, start) ==
  LET tentativeEnd == start + MAX_MESSAGE_LENGTH
      byNewline == lastIndexOf(text, "\n", tentativeEnd)
      bySpace == lastIndexOf(text, " ", tentativeEnd)
  IN  IF byNewline > start THEN byNewline
      ELSE IF bySpace > start THEN bySpace
      ELSE tentativeEnd

\* Variant that takes the characters up to and including the cut point.
segmentWithBreak(text, start, end) ==
  trim(slice(text, start, Min(end + 1, Len(text))))

\* Lines 100 and 115: the characters from start up to end, trimmed.
segmentOf(text, start, end) == trim(slice(text, start, end))

\* Variant without the filter.
keepAll(chunks) == chunks

\* Line 124: chunks.filter(Boolean).
keepNonEmpty(chunks) == SelectSeq(chunks, LAMBDA c : c # <<>>)

InitChunk ==
  /\ files \in [lessons : LessonFiles, videos : VideoFiles]
  /\ lessons = loadLessons(files.lessons)
  /\ videos = loadVideos(files.videos, Len(lessons))
  /\ users = NoUsers
  /\ disk = ABSENT
  /\ tmp = ABSENT
  /\ task = [t \in Tasks |-> IdleTask]
  /\ now = 0
  /\ cmds = 0
  /\ delivered = {}
  /\ status = "up"
  /\ held = {}
  /\ \E text \in Texts : chunker = [NoCall EXCEPT !.pc = "loop", !.text = text]
  /\ argument = NULL
  /\ ScriptsIdle

BotUnchanged ==
  UNCHANGED <<lessons, videos, users, disk, tmp, task, now, cmds, delivered,
              status, held, argument, files, images, generator, tts>>

\* Lines 96-122: the loop test and one iteration of the loop.
Iterate ==
  /\ chunker.pc = "loop"
  /\ LET text == chunker.text
         start == chunker.start
         remaining == Len(text) - start
     IN  IF start >= Len(text)
         THEN chunker' = [chunker EXCEPT !.pc = "filter"]
         ELSE IF remaining <= MAX_MESSAGE_LENGTH
         THEN chunker' =
                [chunker EXCEPT
                   !.chunks = Append(@, segmentOf(text, start, Len(text))),
                   !.iterations = @ + 1,
                   !.pc = "filter"]
         ELSE LET splitIndex == splitIndexOf(text, start)
                  segment == segmentOf(text, start, splitIndex)
              IN  chunker' =
                    [chunker EXCEPT
                       !.chunks = IF segment # <<>> THEN Append(@, segment)
                                  ELSE @,
                       !.iterations = @ + 1,
                       !.start = splitIndex]
  /\ BotUnchanged

\* Line 124: the result.
Return ==
  /\ chunker.pc = "filter"
  /\ chunker' = [chunker EXCEPT !.chunks = keepNonEmpty(@), !.pc = "done"]
  /\ BotUnchanged

NextChunk == Iterate \/ Return

SpecChunk == InitChunk /\ [][NextChunk]_vars

(***************************************************************************)
(* scripts/renameImages.mjs.  A file name devine-name-<digits>.<ext> is    *)
(* the record of its number, the count of its leading zeroes and its       *)
(* extension, so that two records are equal exactly when the names are.    *)
(* The directories tried are the subsets of ImageNames; readdir returns    *)
(* the entries in one of two orders.  The program runs alone on the        *)
(* directory.                                                              *)
(***************************************************************************)
ImageName(number, zeroes, ext) ==
  [number |-> number, zeroes |-> zeroes, ext |-> ext]

ImageNames ==
  << ImageName(0, 0, "jpg"), ImageName(1, 0, "jpg"), ImageName(2, 0, "jpg"),
     ImageName(3, 0, "jpg"), ImageName(1, 1, "jpg"), ImageName(2, 1, "jpg"),
     ImageName(3, 1, "jpg"), ImageName(2, 0, "png") >>

Reversed(seq) == [i \in 1..Len(seq) |-> seq[Len(seq) + 1 - i]]

ReaddirOrders == {ImageNames, Reversed(ImageNames)}

\* Line 52: the sort is stable, descending by number.
RECURSIVE sortDescending(_, _)
sortDescending(entries, n) ==
  IF n < 0 THEN <<>>
  ELSE SelectSeq(entries, LAMBDA f : f.number = n)
         \o sortDescending(entries, n - 1)

\* Lines 32-53: every entry tried is a file whose name matches the pattern.
parseCandidates(entries) == sortDescending(entries, MaxNumber)

\* Lines 56-62: the new name, without leading zeroes.
newName(f) == ImageName(f.number - 1, 0, f.ext)

InitRename ==
  /\ files \in [lessons : LessonFiles, videos : VideoFiles]
  /\ lessons = loadLessons(files.lessons)
  /\ videos = loadVideos(files.videos, Len(lessons))
  /\ users = NoUsers
  /\ disk = ABSENT
  /\ tmp = ABSENT
  /\ task = [t \in Tasks |-> IdleTask]
  /\ now = 0
  /\ cmds = 0
  /\ delivered = {}
  /\ status = "up"
  /\ held = {}
  /\ chunker = NoCall
  /\ argument = NULL
  /\ generator = NoGenerate
  /\ tts = NoTts
  /\ \E dir \in SUBSET Range(ImageNames), order \in ReaddirOrders :
       LET entries == SelectSeq(order, LAMBDA f : f \in dir) IN
       images = [pc |-> "loop", dir |-> dir, entries |-> entries,
                 candidates |-> parseCandidates(entries)]

RenameUnchanged ==
  UNCHANGED <<lessons, videos, users, disk, tmp, task, now, cmds, delivered,
              status, held, chunker, argument, files, generator, tts>>

\* renameCandidate (lines 55-83) for the next candidate of the loop of
\* lines 94-96.
renameCandidate ==
  /\ images.pc = "loop"
  /\ images.candidates # <<>>
  /\ LET f == Head(images.candidates)
         rest == Tail(images.candidates)
     IN  IF \/ f.number - 1 < 0
            \/ newName(f) = f
            \/ newName(f) \in images.dir
         THEN images' = [images EXCEPT !.candidates = rest]
         ELSE images' = [images EXCEPT
                           !.candidates = rest,
                           !.dir = (images.dir \ {f}) \cup {newName(f)}]
  /\ RenameUnchanged

\* Lines 89-97: main returns when no candidate is left.
mainReturns ==
  /\ images.pc = "loop"
  /\ images.candidates = <<>>
  /\ images' = [images EXCEPT !.pc = "done"]
  /\ RenameUnchanged

NextRename == renameCandidate \/ mainReturns

SpecRename == InitRename /\ [][NextRename]_vars

(***************************************************************************)
(* scripts/generateLessons.mjs, with callChatGPT followed request by       *)
(* request and persistLessons write by write.  The course of the script    *)
(* has 100 days (lines 306 and 311); here it has LAST_DAY.  A lesson is    *)
(* the record of its day and of the run that made it; the content of the   *)
(* output file is an array of lessons or something that is not an array.   *)
(* MAX_RETRIES is the default of line 24.                                  *)
(***************************************************************************)
LAST_DAY == 3

MAX_RETRIES == 3

Lesson(day, run) == [day |-> day, run |-> run]

Array(lessonList) == [array |-> TRUE, lessons |-> lessonList]

NotAnArray == [array |-> FALSE, lessons |-> <<>>]

OutputFiles ==
  {ABSENT, Some(NotAnArray)}
    \cup {Some(Array([d \in 1..n |-> Lesson(d, "earlier")])) :
            n \in 0..MaxExisting}

\* Variant that never reads the output file.
readExistingLessonsFresh(resume, file) == <<>>

\* readExistingLessons (lines 172-191).
readExistingLessons(resume, file) ==
  IF ~resume THEN <<>>
  ELSE IF file = ABSENT THEN <<>>
  ELSE IF ~file[1].array THEN <<>>
  ELSE file[1].lessons

\* Variant that gives up one attempt later.
lastAttemptLate(attempt) == attempt = MAX_RETRIES + 1

\* Line 281: the attempt after which the error is thrown again.
lastAttempt(attempt) == attempt = MAX_RETRIES

InitGenerate ==
  /\ files \in [lessons : LessonFiles, videos : VideoFiles]
  /\ lessons = loadLessons(files.lessons)
  /\ videos = loadVideos(files.videos, Len(lessons))
  /\ users = NoUsers
  /\ disk = ABSENT
  /\ tmp = ABSENT
  /\ task = [t \in Tasks |-> IdleTask]
  /\ now = 0
  /\ cmds = 0
  /\ delivered = {}
  /\ status = "up"
  /\ held = {}
  /\ chunker = NoCall
  /\ argument = NULL
  /\ images = NoRename
  /\ tts = NoTts
  /\ \E resume \in BOOLEAN, file \in OutputFiles :
       generator = [NoGenerate EXCEPT !.pc = "read", !.resume = resume,
                                      !.existing = file, !.file = file]

GenerateUnchanged ==
  UNCHANGED <<lessons, videos, users, disk, tmp, task, now, cmds, delivered,
              status, held, chunker, argument, files, images, tts>>

\* Lines 302-310: main reads the lessons there are and either has nothing
\* to do or enters the loop at the day after them.
mainStarts ==
  /\ generator.pc = "read"
  /\ LET existing == readExistingLessons(generator.resume, generator.file)
         startDay == Len(existing) + 1
     IN  generator' =
           IF startDay > LAST_DAY
           THEN [generator EXCEPT !.pc = "done", !.lessons = existing]
           ELSE [generator EXCEPT !.pc = "request", !.lessons = existing,
                                  !.day = startDay]
  /\ GenerateUnchanged

\* One turn of the loop of callChatGPT (lines 256-290): the request and
\* what follows it up to the next await.  On success main composes the
\* lesson, pushes it and persistLessons calls writeFile (lines 314-317,
\* 137-140).
requestLesson ==
  /\ generator.pc = "request"
  /\ \/ generator' =
          [generator EXCEPT
             !.pc = "write",
             !.requests = generator.requests + 1,
             !.lessons = Append(generator.lessons,
                                Lesson(generator.day, "this"))]
     \/ generator' =
          [generator EXCEPT
             !.pc = IF lastAttempt(generator.attempt) THEN "failed"
                    ELSE "backoff",
             !.requests = generator.requests + 1]
  /\ GenerateUnchanged

\* Lines 284-286: the delay is over, the next attempt starts.
retryAfterDelay ==
  /\ generator.pc = "backoff"
  /\ generator' = [generator EXCEPT !.pc = "request",
                                    !.attempt = generator.attempt + 1]
  /\ GenerateUnchanged

\* Line 139: writeFile of the temporary file returns or throws.
writeLessons ==
  /\ generator.pc \in {"write", "lastWrite"}
  /\ \/ generator' =
          [generator EXCEPT
             !.pc = IF generator.pc = "write" THEN "rename"
                    ELSE "lastRename",
             !.tmpFile = Some(Array(generator.lessons))]
     \/ generator' = [generator EXCEPT !.pc = "failed"]
  /\ GenerateUnchanged

\* Line 140: the rename returns or throws; then the loop goes on to the
\* next day (line 311) or, after the last day, to the write of line 321.
renameLessons ==
  /\ generator.pc \in {"rename", "lastRename"}
  /\ \/ generator' =
          [generator EXCEPT
             !.file = generator.tmpFile,
             !.tmpFile = ABSENT,
             !.pc = IF generator.pc = "lastRename" THEN "done"
                    ELSE IF generator.day + 1 > LAST_DAY THEN "lastWrite"
                    ELSE "request",
             !.day = IF generator.pc = "lastRename" THEN generator.day
                     ELSE generator.day + 1,
             !.attempt = 0,
             !.requests = IF generator.pc = "lastRename"
                          THEN generator.requests ELSE 0]
     \/ generator' = [generator EXCEPT !.pc = "failed"]
  /\ GenerateUnchanged

NextGenerate ==
  \/ mainStarts
  \/ requestLesson
  \/ retryAfterDelay
  \/ writeLessons
  \/ renameLessons

SpecGenerate == InitGenerate /\ [][NextGenerate]_vars

(***************************************************************************)
(* scripts/tts_lessons.mjs: the main loop (lines 106-157) with withRetry   *)
(* (lines 72-86) followed call by call.  The input is an array of up to    *)
(* MaxLines strings, each a text, a blank or the empty string; the output  *)
(* directory holds, under some of the names the run will use, a file or a  *)
(* directory.  A file is the record of what it is, of the run that wrote   *)
(* it and of the item it renders.                                          *)
(***************************************************************************)
retries == 3

RECURSIVE decimal(_)
decimal(n) == IF n < 10 THEN <<n>> ELSE Append(decimal(n \div 10), n % 10)

\* Lines 54-56: String(n).padStart(3, "0").
toPadded(n) ==
  LET digits == decimal(n) IN
  [i \in 1..(3 - Len(digits)) |-> 0] \o digits

\* Variant that counts the items rendered, not the items passed.
indexAfterRendered(idx, text) == IF trim(text) = <<>> THEN idx ELSE idx + 1

\* Line 108: idx++ comes first in the loop body, for every item.
indexAfter(idx, text) == idx + 1

TtsLines ==
  UNION {[1..n -> {<<"a">>, <<" ">>, <<>>}] : n \in 1..MaxLines}

Entry(kind, run, item) == [kind |-> kind, run |-> run, item |-> item]

OutDirs ==
  UNION {[{toPadded(i) : i \in S} ->
            {Entry("file", "earlier", 0), Entry("dir", "earlier", 0)}] :
           S \in SUBSET (1..MaxLines)}

Put(out, name, entry) ==
  [n \in DOMAIN out \cup {name} |-> IF n = name THEN entry ELSE out[n]]

\* Lines 117-127: stat finds a file at the path.
existsAsFile(out, name) == name \in DOMAIN out /\ out[name].kind = "file"

InitTts ==
  /\ files \in [lessons : LessonFiles, videos : VideoFiles]
  /\ lessons = loadLessons(files.lessons)
  /\ videos = loadVideos(files.videos, Len(lessons))
  /\ users = NoUsers
  /\ disk = ABSENT
  /\ tmp = ABSENT
  /\ task = [t \in Tasks |-> IdleTask]
  /\ now = 0
  /\ cmds = 0
  /\ delivered = {}
  /\ status = "up"
  /\ held = {}
  /\ chunker = NoCall
  /\ argument = NULL
  /\ images = NoRename
  /\ generator = NoGenerate
  /\ \E overwrite \in BOOLEAN, lines \in TtsLines, out \in OutDirs :
       tts = [NoTts EXCEPT !.pc = "loop", !.overwrite = overwrite,
                           !.lines = lines, !.rest = lines,
                           !.existing = out, !.out = out]

TtsUnchanged ==
  UNCHANGED <<lessons, videos, users, disk, tmp, task, now, cmds, delivered,
              status, held, chunker, argument, files, images, generator>>

\* Lines 107-127: the loop takes the next item, counts it, and passes it by
\* or goes on to render it.
nextItem ==
  /\ tts.pc = "loop"
  /\ tts.rest # <<>>
  /\ LET text == Head(tts.rest)
         idx == indexAfter(tts.idx, text)
         skip == \/ trim(text) = <<>>
                 \/ ~tts.overwrite /\ existsAsFile(tts.out, toPadded(idx))
     IN  tts' = [tts EXCEPT !.rest = Tail(tts.rest),
                            !.idx = idx,
                            !.attempt = 0,
                            !.pc = IF skip THEN "loop" ELSE "request"]
  /\ TtsUnchanged

\* The 1-based position, in the input array, of the item the loop holds.
position == Len(tts.lines) - Len(tts.rest)

\* Lines 75-85 and 150-156: one call of genFn by withRetry; after the last
\* failure the error reaches the catch of the loop body.
generate ==
  /\ tts.pc = "request"
  /\ \/ tts' = [tts EXCEPT !.pc = "save", !.asked = tts.asked \cup {position}]
     \/ tts' = [tts EXCEPT
                  !.asked = tts.asked \cup {position},
                  !.pc = IF tts.attempt < retries THEN "delay" ELSE "loop",
                  !.failed = IF tts.attempt < retries THEN tts.failed
                             ELSE tts.failed \cup {position}]
  /\ TtsUnchanged

\* Lines 80-82: the delay before the next attempt.
delayEnds ==
  /\ tts.pc = "delay"
  /\ tts' = [tts EXCEPT !.pc = "request", !.attempt = tts.attempt + 1]
  /\ TtsUnchanged

\* Line 152: saveWaveFile writes the audio of the item the loop holds to
\* the path made from idx, or fails, leaving the path as it was or a
\* partial file on it; it always fails on a directory.
saveWaveFile ==
  /\ tts.pc = "save"
  /\ LET name == toPadded(tts.idx)
         isDir == name \in DOMAIN tts.out /\ tts.out[name].kind = "dir"
     IN  \/ /\ ~isDir
            /\ tts' = [tts EXCEPT
                         !.pc = "loop",
                         !.out = Put(tts.out, name,
                                     Entry("file", "this", position))]
         \/ /\ ~isDir
            /\ tts' = [tts EXCEPT
                         !.pc = "loop",
                         !.failed = tts.failed \cup {position},
                         !.out = Put(tts.out, name,
                                     Entry("partial", "this", position))]
         \/ tts' = [tts EXCEPT !.pc = "loop",
                               !.failed = tts.failed \cup {position}]
  /\ TtsUnchanged

\* Lines 157-159: no item is left.
loopEnds ==
  /\ tts.pc = "loop"
  /\ tts.rest = <<>>
  /\ tts' = [tts EXCEPT !.pc = "done"]
  /\ TtsUnchanged

NextTts ==
  \/ nextItem
  \/ generate
  \/ delayEnds
  \/ saveWaveFile
  \/ loopEnds

SpecTts == InitTts /\ [][NextTts]_vars

(***************************************************************************)
(* Steps of one task, as seen in a pair of states.                         *)
(***************************************************************************)
Stepped(t) == task'[t] # task[t]

\* A text send of t threw: the delivery left the text loop without
\* reaching the audio step.
TextFailed(t) ==
  /\ task[t].pc = "text"
  /\ Stepped(t)
  /\ task'[t].pc \notin {"text", "audio"}

\* t sent the last chunk of its lesson text.
TextCompleted(t) ==
  /\ task[t].pc = "text"
  /\ task'[t].pc = "audio"

\* t executed lines 244-246: it advanced the progress of its chat.
Advanced(t) ==
  /\ task[t].pc \notin {"write", "congrats"}
  /\ task'[t].pc = "write"

\* Run r called sendLessonToUser for one more subscriber.
Attempted(r) ==
  /\ task'[r].kind = "tick"
  /\ task'[r].attempted # task[r].attempted

\* The entries run r passed over, without an attempt, in this step: those
\* it had still to visit (all of userEntries when it starts) that it has
\* neither kept for later nor just attempted.
PassedOver(r) ==
  LET before == IF task[r].kind = "tick" THEN Range(task[r].queue)
                ELSE Range(userEntries)
      after == IF task'[r].kind = "tick" THEN Range(task'[r].queue) ELSE {}
  IN  (before \ after) \ (IF Attempted(r) THEN {task'[r].chat} ELSE {})

\* Run r went through its loop in this step: it started, or resumed after
\* the pacing delay.
Visited(r) ==
  \/ task[r].kind = "idle" /\ task'[r].kind = "tick"
  \/ task[r].pc = "sleep" /\ Stepped(r)

(***************************************************************************)
(* C1.  If a text-chunk send throws while a scheduled run delivers lesson  *)
(* k to subscriber S, then after the attempt S's record is as it was       *)
(* before the attempt (currentLesson = k, the index the run read when it   *)
(* started the attempt) and S is still due, with lesson k the one the      *)
(* next run attempts.                                                      *)
(***************************************************************************)
C1_FailedTextKeepsProgress ==
  [][\A r \in Runs :
       TextFailed(r) =>
         /\ users' = users
         /\ users'[task[r].chat].currentLesson = task[r].lesson
         /\ IsDue(users', task[r].chat)]_vars

(***************************************************************************)
(* C2.  Progress is advanced for (S, k) only if the primary text of        *)
(* lesson k was sent to S in that delivery: every chunk was sent and at    *)
(* least one chunk was sent.                                               *)
(***************************************************************************)
C2_AdvanceOnlyAfterText ==
  [][\A t \in Tasks :
       Advanced(t) =>
         /\ task[t].sent >= 1
         /\ task[t].sent = Len(messageChunks(task[t].lesson))]_vars

(***************************************************************************)
(* C3.  A failed send of an auxiliary asset (image, audio, video message)  *)
(* does not abort a delivery made through sendLessonToUser: after the      *)
(* step of an auxiliary asset the delivery goes on to its next send or     *)
(* advances the progress.                                                  *)
(***************************************************************************)
C3_AssetFailureDoesNotAbort ==
  [][\A t \in Tasks :
       (/\ task[t].viaUser
        /\ task[t].pc \in {"image", "audio", "video"}
        /\ Stepped(t))
       => task'[t].pc \in {"text", "audio", "video", "write"}]_vars

(***************************************************************************)
(* C4.  The /start and scheduled path completes the text delivery of       *)
(* lesson k to subscriber S at most once.                                  *)
(***************************************************************************)
C4_NoDuplicateDelivery ==
  [][\A t \in Tasks :
       (task[t].viaUser /\ TextCompleted(t))
       => <<task[t].chat, task[t].lesson>> \notin delivered]_vars

(***************************************************************************)
(* C5.  The stored currentLesson of a subscriber never decreases.          *)
(***************************************************************************)
C5_ProgressMonotonic ==
  [][\A c \in DOMAIN users :
       users'[c].currentLesson >= users[c].currentLesson]_vars

(***************************************************************************)
(* C6.  From a fresh store, every record of the store satisfies            *)
(* 0 <= currentLesson <= totalLessons.                                     *)
(***************************************************************************)
C6_LessonInRange ==
  \A c \in DOMAIN users :
    /\ users[c].currentLesson >= 0
    /\ users[c].currentLesson <= totalLessons

\* A subscriber has been advanced up to the upper end of the range.
C6_Witness ==
  \E t \in Tasks :
    /\ task[t].pc = "write"
    /\ task[t].lesson + 1 = totalLessons
    /\ users[task[t].chat].currentLesson = totalLessons

(***************************************************************************)
(* C7.  In one scheduler run every subscriber that is due when its turn    *)
(* comes gets exactly one delivery attempt: it is attempted at most once,  *)
(* only when due, and no due entry is passed over; the lesson attempted    *)
(* is the one at its stored currentLesson, and when the delivery succeeds  *)
(* currentLesson is that index plus one.                                   *)
(***************************************************************************)
C7_OneLessonPerRun ==
  [][\A r \in Runs :
       /\ Visited(r) => \A c \in PassedOver(r) : ~IsDue(users, c)
       /\ (now' # now /\ task' = task) =>
            \A c \in DOMAIN users : ~IsDue(users, c)
       /\ Attempted(r) =>
            /\ task'[r].chat \notin task[r].attempted
            /\ task'[r].attempted = task[r].attempted \cup {task'[r].chat}
            /\ task'[r].chat \in DOMAIN users
            /\ IsDue(users, task'[r].chat)
            /\ task'[r].lesson = users[task'[r].chat].currentLesson
       /\ (task[r].kind = "tick" /\ Advanced(r)) =>
            users'[task[r].chat].currentLesson = task[r].lesson + 1]_vars

\* A run has attempted both subscribers and its second delivery succeeded.
C7_Witness ==
  \E r \in Runs :
    /\ task[r].kind = "tick"
    /\ task[r].pc = "write"
    /\ Cardinality(task[r].attempted) >= 2
    /\ task[r].sent >= 1
    /\ users[task[r].chat].currentLesson = task[r].lesson + 1

(***************************************************************************)
(* C8.  Whatever the outcome of a subscriber's delivery, the run goes on:  *)
(* a run in progress is suspended at a send, a save or its pacing delay,   *)
(* none of which waits for another task, and it ends only from its pacing  *)
(* delay, when no entry it has not yet visited is due.                     *)
(***************************************************************************)
C8_FailureIsolation ==
  [][\A r \in Runs :
       /\ task[r].kind = "tick" =>
            task[r].pc \in {"unavail", "image", "text", "audio", "video",
                             "write", "rename", "sleep"}
       /\ (task[r].kind = "tick" /\ task'[r].kind = "idle") =>
            /\ task[r].pc = "sleep"
            /\ \A i \in 1..Len(task[r].queue) :
                 ~IsDue(users, task[r].queue[i])]_vars

\* A run is delivering to a later subscriber after the delivery to an
\* earlier one of the same run failed.
C8_Witness ==
  \E r \in Runs :
    /\ task[r].kind = "tick"
    /\ task[r].pc \in {"image", "text"}
    /\ task[r].failed # {}
    /\ task[r].chat \notin task[r].failed

(***************************************************************************)
(* C9.  At no time are two scheduler runs in progress together.            *)
(***************************************************************************)
C9_NoOverlappingRuns ==
  Cardinality({r \in Runs : task[r].kind = "tick"}) <= 1

(***************************************************************************)
(* C10.  A /lesson handler never changes the progress store, in memory or  *)
(* on disk, and a request in range is answered with the assets of lesson   *)
(* index n - 1.                                                            *)
(***************************************************************************)
C10_ResendLeavesStore ==
  [][\A h \in Handlers :
       ((task[h].kind = "lesson" \/ task'[h].kind = "lesson") /\ Stepped(h))
       => /\ users' = users
          /\ disk' = disk
          /\ tmp' = tmp
          /\ (task[h].pc = "ack" /\ task'[h].kind = "lesson") =>
               /\ task'[h].pc \in {"image", "unavail"}
               /\ task'[h].lesson = task[h].lesson
               /\ task'[h].chat = task[h].chat]_vars

\* A resend has sent the whole text of a lesson to a chat that is not
\* registered, while another chat is.
C10_Witness ==
  \E h \in Handlers :
    /\ task[h].kind = "lesson"
    /\ task[h].pc = "audio"
    /\ task[h].sent >= 1
    /\ task[h].chat \notin DOMAIN users
    /\ DOMAIN users # {}

(***************************************************************************)
(* C11.  The first /start of an unknown chat creates a record with         *)
(* currentLesson = 0 and starts its save; when that save has returned the  *)
(* file holds the record with currentLesson = 0; the handler then delivers *)
(* lesson index 0 through sendLessonToUser; when that delivery succeeds    *)
(* currentLesson is 1, and when one of its sends throws currentLesson is   *)
(* still 0, so that the next run attempts lesson 0.                        *)
(***************************************************************************)
C11_FirstStartDelivers ==
  [][\A h \in Handlers :
       LET c == task'[h].chat IN
       /\ (/\ task[h].kind = "idle"
           /\ task'[h].kind = "start"
           /\ c \notin DOMAIN users)
          => /\ c \in DOMAIN users'
             /\ users'[c].currentLesson = 0
             /\ task'[h].pc = "regWrite"
             /\ task'[h].payload = users'
       /\ (task[h].pc = "regRename" /\ task'[h].pc = "welcome")
          => /\ disk' # ABSENT
             /\ c \in DOMAIN StoredUsers(disk')
             /\ StoredUsers(disk')[c].currentLesson = 0
       /\ (task[h].pc = "welcome" /\ Stepped(h) /\ task'[h].kind = "start")
          => /\ task'[h].viaUser
             /\ task'[h].lesson = 0
             /\ task'[h].pc \in {"image", "unavail"}
       /\ (task[h].kind = "start" /\ Advanced(h))
          => users'[c].currentLesson = 1
       /\ (/\ task[h].kind = "start"
           /\ task[h].pc \in {"unavail", "text", "video"}
           /\ task'[h].pc = "help")
          => /\ users'[c].currentLesson = 0
             /\ IsDue(users', c)]_vars

(***************************************************************************)
(* C12.  Registration is idempotent: ensureUserState for a registered chat *)
(* returns the store as it is, and a /start handler that found its chat    *)
(* registered changes no record, creates none, saves nothing and never     *)
(* enters a delivery: it sends the welcome-back and the help text only.    *)
(***************************************************************************)
C12_RegistrationIdempotent ==
  [][\A h \in Handlers :
       /\ \A c \in DOMAIN users : ensureUserState(users, c) = users
       /\ (/\ task[h].kind = "idle"
           /\ task'[h].kind = "start"
           /\ task'[h].chat \in DOMAIN users)
          => /\ users' = users
             /\ task'[h].pc = "back"
       /\ (/\ task[h].kind = "start"
           /\ ~task[h].viaUser
           /\ task[h].pc \in {"back", "help"}
           /\ Stepped(h))
          => /\ users' = users
             /\ disk' = disk
             /\ tmp' = tmp
             /\ delivered' = delivered
             /\ \/ task[h].pc = "back" /\ task'[h].pc = "help"
                \/ task'[h].kind = "idle"]_vars

\* A chat whose first lesson has been delivered has sent /start again and
\* has been welcomed back.
C12_Witness ==
  \E h \in Handlers :
    /\ task[h].kind = "start"
    /\ ~task[h].viaUser
    /\ task[h].pc = "help"
    /\ users[task[h].chat].currentLesson >= 1

\* Run r was suspended at a send to chat c and the send has ended.
RunSentTo(r, c) ==
  /\ task[r].kind = "tick"
  /\ task[r].chat = c
  /\ task[r].pc \in {"unavail", "congrats", "image", "text", "audio", "video"}
  /\ Stepped(r)

(***************************************************************************)
(* C13.  A subscriber whose currentLesson has reached totalLessons is not  *)
(* due: no run calls sendLessonToUser for it, no send of a run goes to it, *)
(* no step of a run changes its record, and it is still completed after    *)
(* every step.                                                             *)
(***************************************************************************)
C13_CompletedStaysCompleted ==
  [][\A c \in DOMAIN users :
       ~IsDue(users, c) =>
         /\ ~IsDue(users', c)
         /\ \A r \in Runs :
              /\ Attempted(r) => task'[r].chat # c
              /\ ~RunSentTo(r, c)
              /\ (task[r].kind = "tick" /\ Stepped(r)) =>
                   users'[c] = users[c]]_vars

\* Task t entered sendLessonAssets in this step.
EnteredAssets(t) ==
  /\ Stepped(t)
  /\ task[t].pc \in {"idle", "welcome", "ack", "sleep"}
  /\ task'[t].pc \in {"unavail", "image"}

(***************************************************************************)
(* C14.  A delivery whose lesson text is absent or empty sends the         *)
(* unavailable notice in place of the lesson, and the step that ends the   *)
(* notice changes no record, starts no save and leaves the progress file   *)
(* and its temporary file as they are, on the scheduled, the registration  *)
(* and the resend path.                                                    *)
(***************************************************************************)
C14_UnavailableLeavesStore ==
  [][\A t \in Tasks :
       /\ EnteredAssets(t) =>
            (task'[t].pc = "unavail" <=> lessonText(task'[t].lesson) = <<>>)
       /\ (task[t].pc = "unavail" /\ Stepped(t)) =>
            /\ users' = users
            /\ task'[t].pc # "write"
            /\ disk' = disk
            /\ tmp' = tmp]_vars

\* The delivery of t is over: sendLessonAssets returned or threw.
LeftAssets(t) ==
  task'[t].pc \in {"write", "sleep", "help", "idle"}

(***************************************************************************)
(* C15.  Within one delivery the sends follow one another in the order     *)
(* image, text chunks in chunk order, audio, video message: a delivery     *)
(* starts with no chunk sent; the end of the image send starts chunk 1 (or *)
(* the audio when the text has no chunk); the end of chunk i starts chunk  *)
(* i + 1, or the audio after the last chunk, or ends the delivery when it  *)
(* threw; the end of the audio send starts the video message when the      *)
(* lesson has one and ends the delivery otherwise; the video message is    *)
(* the last send.  A delivery is suspended at one send at a time.          *)
(***************************************************************************)
C15_SendOrder ==
  [][\A t \in Tasks :
       LET chunks == messageChunks(task[t].lesson) IN
       /\ EnteredAssets(t) => task'[t].sent = 0
       /\ (Stepped(t) /\ task'[t].pc = "image") => EnteredAssets(t)
       /\ (Stepped(t) /\ task[t].pc \in {"image", "text", "audio"}
                      /\ ~LeftAssets(t))
          => /\ task'[t].chat = task[t].chat
             /\ task'[t].lesson = task[t].lesson
       /\ (Stepped(t) /\ task[t].pc = "image")
          => /\ task'[t].sent = 0
             /\ task'[t].pc = IF chunks = <<>> THEN "audio" ELSE "text"
       /\ (Stepped(t) /\ task[t].pc = "text")
          => /\ task[t].sent < Len(chunks)
             /\ \/ LeftAssets(t) /\ task'[t].pc # "write"
                \/ /\ task'[t].sent = task[t].sent + 1
                   /\ task'[t].pc = IF task'[t].sent = Len(chunks)
                                    THEN "audio" ELSE "text"
       /\ (Stepped(t) /\ task[t].pc = "audio")
          => /\ task[t].sent = Len(chunks)
             /\ IF hasVideo(task[t].lesson) THEN task'[t].pc = "video"
                ELSE LeftAssets(t)
       /\ (Stepped(t) /\ task[t].pc = "video") => LeftAssets(t)]_vars

\* A delivery has sent the image, both chunks of a two-chunk text and the
\* audio, and is at the video message.
C15_Witness ==
  \E t \in Tasks :
    /\ task[t].pc = "video"
    /\ task[t].sent = 2
    /\ Len(messageChunks(task[t].lesson)) = 2

\* Task t is inside saveProgress, between its writeFile and its rename.
Renaming(t) == task[t].pc \in {"regRename", "rename"}

(***************************************************************************)
(* C16.  Saves do not disturb one another: while a save is between its     *)
(* writeFile and its rename, the temporary file exists and holds the text  *)
(* that save wrote, so that its rename cannot fail for want of the file    *)
(* and publishes that save's snapshot; and the progress file, when it      *)
(* exists, holds records of registered chats only.                         *)
(***************************************************************************)
C16_SavesDoNotInterfere ==
  /\ \A t \in Tasks :
       Renaming(t) => tmp = Some(stringify(task[t].payload))
  /\ DOMAIN StoredUsers(disk) \subseteq DOMAIN users

\* Task t was inside the save of line 246 and sendLessonToUser has
\* returned to its caller in this step.
ReturnedFromSave(t) ==
  /\ task[t].pc \in {"write", "rename"}
  /\ task[t].lesson < totalLessons
  /\ Stepped(t)
  /\ task'[t].pc \notin {"write", "rename"}

Quiescent == \A t \in Tasks : task[t].kind = "idle"

(***************************************************************************)
(* C17.  When a delivery that advanced currentLesson has returned, the     *)
(* progress file holds the advanced value for that subscriber; and in      *)
(* every state with no handler and no run in progress the store in the     *)
(* progress file equals the store in memory.                               *)
(***************************************************************************)
C17_AdvanceDurable ==
  [][/\ \A t \in Tasks :
          ReturnedFromSave(t) =>
            LET c == task[t].chat IN
            /\ c \in DOMAIN StoredUsers(disk')
            /\ StoredUsers(disk')[c].currentLesson =
                 task[t].payload[c].currentLesson
     /\ Quiescent' => StoredUsers(disk') = users']_vars

\* The lessons whose whole text the /start and scheduled path have sent to
\* chat c.
LessonsDelivered(c) == {k \in 0..MaxLessons : <<c, k>> \in delivered}

(***************************************************************************)
(* C18.  When the process, stopped at any point, has started again, the    *)
(* currentLesson restored for a subscriber is a value its record held      *)
(* before the stop, and it is not greater than the number of lessons whose *)
(* text was fully delivered to that subscriber.                            *)
(***************************************************************************)
C18_RestartLosesNoLesson ==
  [][(status = "off" /\ status' = "up") =>
       \A c \in DOMAIN users' :
         /\ <<c, users'[c].currentLesson>> \in held
         /\ users'[c].currentLesson <= Cardinality(LessonsDelivered(c))]_vars

\* The content is not of the expected shape: not JSON, not a plain object,
\* or an object whose `users` is missing or not an object.
Misshapen(content) ==
  \/ content.json # "object"
  \/ content.field \in {"missing", "null", "number", "string"}

(***************************************************************************)
(* C19.  A start that finds a progress file whose content is not of the    *)
(* expected shape halts; the bot is up over an existing progress file only *)
(* with the subscriber map that file holds, never with an empty map in     *)
(* place of a misshapen file.                                              *)
(***************************************************************************)
C19_MisshapenFileHalts ==
  (status # "off" /\ disk # ABSENT) =>
    /\ Misshapen(disk[1]) => status = "halted"
    /\ status = "up" =>
         /\ ~Misshapen(disk[1])
         /\ users = disk[1].users

(***************************************************************************)
(* C20.  When the timer keeps firing, every run finishes and text sends    *)
(* succeed in the end, every registered subscriber eventually reaches      *)
(* currentLesson = totalLessons, whatever becomes of the image, audio and  *)
(* video sends.                                                            *)
(***************************************************************************)
C20_EveryoneCompletes ==
  \A c \in Chats :
    <>(c \in DOMAIN users /\ users[c].currentLesson = totalLessons)

(***************************************************************************)
(* C21.  Every chunk formatChunks returns is non-empty and is at most      *)
(* MAX_MESSAGE_LENGTH characters long.                                     *)
(***************************************************************************)
C21_ChunksWithinLimit ==
  chunker.pc = "done" =>
    \A i \in 1..Len(chunker.chunks) :
      /\ chunker.chunks[i] # <<>>
      /\ Len(chunker.chunks[i]) <= MAX_MESSAGE_LENGTH

\* A text gave a chunk of the full length, and its all-whitespace end,
\* taken in a second iteration, gave no chunk.
C21_Witness ==
  /\ chunker.pc = "done"
  /\ Len(chunker.chunks) = 1
  /\ Len(chunker.chunks[1]) = MAX_MESSAGE_LENGTH
  /\ chunker.iterations = 2

\* The characters of a text that are not whitespace, in order.
Solid(text) == SelectSeq(text, LAMBDA ch : ch \notin Whitespace)

RECURSIVE Joined(_)
Joined(chunks) ==
  IF chunks = <<>> THEN <<>> ELSE Head(chunks) \o Joined(Tail(chunks))

\* The part of the text the loop has gone through.
Consumed ==
  IF chunker.pc = "loop" THEN slice(chunker.text, 0, chunker.start)
  ELSE chunker.text

\* chunk is a run of consecutive characters of text.
OccursIn(chunk, text) ==
  \E from \in 0..Len(text) :
    /\ from + Len(chunk) <= Len(text)
    /\ slice(text, from, from + Len(chunk)) = chunk

(***************************************************************************)
(* C22.  The chunks, joined in order, hold exactly the non-whitespace      *)
(* characters of the text gone through so far, in the order of the text;   *)
(* and each chunk is a run of consecutive characters of the text, so that  *)
(* whitespace is dropped only between chunks and at the ends.              *)
(***************************************************************************)
C22_NoCharacterLost ==
  chunker.pc # "idle" =>
    /\ Solid(Joined(chunker.chunks)) = Solid(Consumed)
    /\ \A i \in 1..Len(chunker.chunks) :
         OccursIn(chunker.chunks[i], chunker.text)

\* A text with whitespace inside a chunk and at a cut was cut in two.
C22_Witness ==
  /\ chunker.pc = "done"
  /\ Len(chunker.chunks) = 2
  /\ \E i \in 1..Len(chunker.chunks[1]) : chunker.chunks[1][i] \in Whitespace
  /\ Len(Joined(chunker.chunks)) < Len(chunker.text)

(***************************************************************************)
(* C23.  formatChunks terminates: an iteration of its loop either moves    *)
(* the start offset forward by at least one character, not past the end    *)
(* of the text, or is the last one; the loop makes at most length(text)    *)
(* iterations, and the call returns.                                       *)
(***************************************************************************)
C23_ChunkerTerminates ==
  [][/\ (chunker.pc = "loop" /\ chunker'.pc = "loop") =>
          /\ chunker'.start > chunker.start
          /\ chunker'.start <= Len(chunker.text)
     /\ chunker'.iterations <= Len(chunker.text)
     /\ chunker'.iterations \in {chunker.iterations, chunker.iterations + 1}
     /\ chunker.pc = "loop" =>
          chunker'.pc = "filter" \/ chunker'.iterations > chunker.iterations
     /\ chunker.pc = "filter" => chunker'.pc = "done"]_vars

\* A call has returned after two iterations of the loop.
C23_Witness ==
  /\ chunker.pc = "done"
  /\ chunker.iterations = 2
  /\ chunker.start > 0

\* The last offset in lo..hi at which text has the character ch, or -1.
LastIn(text, ch, lo, hi) ==
  LET hits == {i \in lo..hi : i < Len(text) /\ text[i + 1] = ch}
  IN  IF hits = {} THEN -1 ELSE CHOOSE i \in hits : \A j \in hits : j <= i

\* The cut for a rest longer than the limit: the last newline among the
\* offsets after start up to hi, else the last space there, else the limit.
CutWithin(text, start, hi) ==
  IF LastIn(text, "\n", start + 1, hi) # -1
  THEN LastIn(text, "\n", start + 1, hi)
  ELSE IF LastIn(text, " ", start + 1, hi) # -1
       THEN LastIn(text, " ", start + 1, hi)
       ELSE start + MAX_MESSAGE_LENGTH

\* An iteration cuts at the offset cut(text, start) when the rest is longer
\* than the limit, and takes the whole rest as the last chunk otherwise.
CutsAt(cut(_, _)) ==
  (chunker.pc = "loop" /\ chunker.start < Len(chunker.text)) =>
    IF Len(chunker.text) - chunker.start > MAX_MESSAGE_LENGTH
    THEN /\ chunker'.pc = "loop"
         /\ chunker'.start = cut(chunker.text, chunker.start)
    ELSE /\ chunker'.pc = "filter"
         /\ chunker'.chunks =
              Append(chunker.chunks,
                     trim(slice(chunker.text, chunker.start,
                                Len(chunker.text))))

\* The window of the first maxLength characters of the rest: it ends at
\* the maxLength-th character, offset start + maxLength - 1.
CutInLimit(text, start) ==
  CutWithin(text, start, start + MAX_MESSAGE_LENGTH - 1)

\* The window the code searches: it ends one character later, at offset
\* start + maxLength.
CutInSearch(text, start) == CutWithin(text, start, start + MAX_MESSAGE_LENGTH)

(***************************************************************************)
(* C24, as stated.  When the rest is longer than maxLength the cut is the  *)
(* last newline at or before the maxLength-th character of the rest, else  *)
(* the last space in that window, else exactly maxLength characters; a     *)
(* rest that fits is emitted whole as the last chunk.                      *)
(***************************************************************************)
C24_CutWithinLimit == [][CutsAt(CutInLimit)]_vars

(***************************************************************************)
(* C24, amended.  The window in which the newline, and then the space, is  *)
(* looked for ends at the character after the maxLength-th one (offset     *)
(* start + maxLength of the text); the rest is as stated.                  *)
(***************************************************************************)
C24_CutWithinSearch == [][CutsAt(CutInSearch)]_vars

\* The first cut was made at a newline that is the character after the
\* maxLength-th one, although an earlier break was at hand.
C24_Witness ==
  /\ chunker.pc = "loop"
  /\ chunker.iterations = 1
  /\ chunker.start = MAX_MESSAGE_LENGTH
  /\ chunker.text[MAX_MESSAGE_LENGTH + 1] = "\n"
  /\ \E i \in 2..MAX_MESSAGE_LENGTH : chunker.text[i] \in Whitespace

\* Handler h took up a /progress command in this step.
ProgressAsked(h) ==
  /\ task[h].kind = "idle"
  /\ task'[h].kind = "progress"

(***************************************************************************)
(* C25.  /progress for a registered chat reports min(currentLesson,        *)
(* totalLessons) as the number of lessons received and reports the course  *)
(* as completed exactly when currentLesson >= totalLessons; for a chat     *)
(* that is not registered it sends the no-progress notice and creates no   *)
(* record; no step of the handler changes the store, in memory or on disk. *)
(***************************************************************************)
C25_ProgressReport ==
  [][\A h \in Handlers :
       /\ ProgressAsked(h) =>
            LET c == task'[h].chat IN
            IF c \in DOMAIN users
            THEN /\ task'[h].pc = "report"
                 /\ task'[h].report[1].received =
                      Min(users[c].currentLesson, totalLessons)
                 /\ task'[h].report[1].completed =
                      (users[c].currentLesson >= totalLessons)
            ELSE /\ task'[h].pc = "noprogress"
                 /\ c \notin DOMAIN users'
       /\ ((ProgressAsked(h) \/ task[h].kind = "progress") /\ Stepped(h)) =>
            /\ users' = users
            /\ disk' = disk
            /\ tmp' = tmp
            /\ task'[h].kind = "progress" => ProgressAsked(h)]_vars

\* A "/lesson <digits>" message arrived in this step.
LessonAsked == cmds' # cmds /\ argument' # NULL

\* The number written in the message that arrived.
RequestedNumber == parseInt(argument'[1])

(***************************************************************************)
(* C26.  Every /lesson message whose number is outside 1..totalLessons,    *)
(* whatever its count of digits, is answered with the out-of-range         *)
(* message: a handler takes it up at the range reply, and that handler     *)
(* ends after the reply without sending any lesson asset.                  *)
(***************************************************************************)
C26_OutOfRangeRejected ==
  [][/\ (LessonAsked /\ (RequestedNumber < 1 \/ RequestedNumber > totalLessons))
          => \E h \in Handlers :
               /\ Stepped(h)
               /\ task'[h].kind = "lesson"
               /\ task'[h].pc = "range"
     /\ \A h \in Handlers :
          (task[h].pc = "range" /\ Stepped(h)) =>
            /\ task'[h] = IdleTask
            /\ delivered' = delivered]_vars

(***************************************************************************)
(* C27.  The course is as long as the array in the lessons file:           *)
(* totalLessons equals the number of entries of the file, so that a file   *)
(* of 100 entries gives 100 lessons.                                       *)
(***************************************************************************)
C27_CurriculumIsWholeFile == totalLessons = Len(files.lessons)

\* A task is inside sendLessonAssets.
InAssets(t) == task[t].pc \in {"unavail", "image", "text", "audio", "video"}

(***************************************************************************)
(* C28.  Only the first TOTAL_IMAGE_FILES = 99 entries of the lessons file *)
(* are used: totalLessons is the smaller of 99 and the number of entries,  *)
(* the lessons are the first totalLessons entries, no timer run and no     *)
(* resend is ever sending an entry of index 99 or more, and the videos     *)
(* linked are the first totalLessons entries of the videos file (all of    *)
(* them when the file is shorter).                                         *)
(***************************************************************************)
C28_FirstEntriesOnly ==
  /\ totalLessons = Min(TOTAL_IMAGE_FILES, Len(files.lessons))
  /\ lessons = SubSeq(files.lessons, 1, totalLessons)
  /\ videos = SubSeq(files.videos, 1, Min(totalLessons, Len(files.videos)))
  /\ \A t \in Tasks :
       InAssets(t) =>
         /\ task[t].lesson < TOTAL_IMAGE_FILES
         /\ task[t].lesson < totalLessons
         /\ task[t].pc = "video" => task[t].lesson + 1 \in DOMAIN videos
  /\ \A d \in delivered : d[2] < TOTAL_IMAGE_FILES

\* Both files hold more than 99 entries, the subscriber has received all 99
\* lessons, the last of them in a timer run, and a /lesson for number 100
\* is being answered with the range message.
C28_Witness ==
  /\ Len(files.lessons) > TOTAL_IMAGE_FILES
  /\ Len(files.videos) > TOTAL_IMAGE_FILES
  /\ users[1].currentLesson = TOTAL_IMAGE_FILES
  /\ users[1].lastSentAt # Some(0)
  /\ \E h \in Handlers : task[h].kind = "lesson" /\ task[h].pc = "range"

(***************************************************************************)
(* C29.  No step of a command handler or of a timer run removes a          *)
(* subscriber record or changes the joinedAt of one; a record is created   *)
(* only by /start, as a new record; and the currentLesson and lastSentAt   *)
(* of a record change only in the step in which sendLessonToUser, called   *)
(* by /start or by a timer run for that chat, is back from a               *)
(* sendLessonAssets that returned: never in a step of /progress, /help or  *)
(* /lesson, and never in a /start for a chat that has a record.            *)
(***************************************************************************)
C29_RecordsChangeOnlyOnDelivery ==
  [][/\ \A c \in DOMAIN users :
          /\ c \in DOMAIN users'
          /\ users'[c].joinedAt = users[c].joinedAt
          /\ users'[c] # users[c] =>
               \E t \in Tasks :
                 /\ task[t].kind \in {"start", "tick"}
                 /\ task[t].chat = c
                 /\ task[t].viaUser
                 /\ InAssets(t)
                 /\ Advanced(t)
                 /\ users'[c].currentLesson =
                      Min(task[t].lesson + 1, totalLessons)
                 /\ users'[c].lastSentAt = Some(now)
     /\ \A c \in DOMAIN users' \ DOMAIN users :
          /\ users'[c] = NewUserState
          /\ \E h \in Handlers :
               /\ task[h].kind = "idle"
               /\ task'[h].kind = "start"
               /\ task'[h].chat = c
     /\ \A t \in Tasks :
          (Stepped(t) /\ (task[t].kind \in {"progress", "help", "lesson"}
                          \/ task'[t].kind \in {"progress", "help", "lesson"}
                          \/ task'[t].pc = "back"))
            => users' = users]_vars

\* A chat that has received its first lesson is being resent a lesson by
\* /lesson while another handler answers its /progress.
C29_Witness ==
  \E c \in DOMAIN users :
    /\ users[c].currentLesson = 1
    /\ \E h \in Handlers :
         task[h].kind = "lesson" /\ task[h].chat = c /\ task[h].pc = "audio"
    /\ \E h \in Handlers :
         task[h].kind = "progress" /\ task[h].chat = c /\ task[h].pc = "report"

(***************************************************************************)
(* C30.  When the send of a text chunk fails, the delivery attempt is      *)
(* over: the task sends no later chunk, no audio and no video message and  *)
(* starts no other send of that lesson in that step; and a timer run       *)
(* never comes back, before it ends, to a subscriber for whom its attempt  *)
(* failed, whose record it leaves as it was, so that the lesson is         *)
(* attempted again only by a run started by another tick.                  *)
(***************************************************************************)
C30_NoRetryWithinRun ==
  [][\A t \in Tasks :
       /\ TextFailed(t) =>
            /\ task'[t].pc \in {"sleep", "help", "idle"}
            /\ users' = users
            /\ delivered' = delivered
            /\ task'[t].kind = "tick" =>
                 /\ task[t].chat \in task'[t].failed
                 /\ task'[t].sent = task[t].sent
       /\ (task'[t].kind = "tick" /\ Stepped(t)) =>
            \A c \in task'[t].failed :
              /\ c \notin Range(task'[t].queue)
              /\ ~(task'[t].chat = c
                   /\ task'[t].pc \in {"unavail", "image", "text", "audio",
                                       "video", "congrats", "write",
                                       "rename"})]_vars

\* A run whose second chunk failed for a subscriber is at its pacing
\* delay, the subscriber's record is where it was, and a run started by a
\* later tick is sending that subscriber the same lesson again.
C30_Witness ==
  \E r \in Runs, o \in Runs :
    /\ r # o
    /\ task[r].pc = "sleep"
    /\ task[r].chat \in task[r].failed
    /\ task[r].sent = 1
    /\ Len(messageChunks(task[r].lesson)) = 2
    /\ users[task[r].chat].currentLesson = task[r].lesson
    /\ task[o].kind = "tick"
    /\ task[o].chat = task[r].chat
    /\ task[o].lesson = task[r].lesson
    /\ task[o].pc = "text"

\* The chats run r has in hand after the step: the one it is serving and
\* those still in its queue.
Entries(r) == Range(task'[r].queue) \cup task'[r].attempted

(***************************************************************************)
(* C31, as stated.  A timer run serves exactly the subscribers that were   *)
(* due when the timer fired, in the order of its entries, each with the    *)
(* lesson index its record held at that moment: a chat registered later    *)
(* is not served, an entry is passed over only if it was not due then,     *)
(* and the index of an attempt is the one of the snapshot whatever has     *)
(* become of the record since.                                             *)
(***************************************************************************)
C31_RunServesSnapshot ==
  [][\A r \in Runs :
       /\ (task'[r].kind = "tick" /\ Stepped(r)) =>
            Entries(r) \subseteq DOMAIN task'[r].snapshot
       /\ Attempted(r) =>
            /\ task'[r].lesson = task'[r].snapshot[task'[r].chat]
            /\ \A d \in task[r].attempted : d < task'[r].chat
       /\ (Visited(r) /\ task'[r].kind # "idle") =>
            \A c \in PassedOver(r) :
              task'[r].snapshot[c] >= totalLessons]_vars

(***************************************************************************)
(* C31, amended.  A timer run serves subscribers among the entries it took *)
(* when the timer fired, in the order of the entries, so that a chat       *)
(* registered later is not served; whether an entry is due, and the lesson *)
(* index of its attempt, are read from the record when the run reaches the *)
(* entry: an entry is passed over exactly when its record is then at the   *)
(* end of the course, and the attempt is for the currentLesson the record  *)
(* holds then.                                                             *)
(***************************************************************************)
C31_RunServesEntries ==
  [][\A r \in Runs :
       /\ (task'[r].kind = "tick" /\ Stepped(r)) =>
            Entries(r) \subseteq DOMAIN task'[r].snapshot
       /\ Attempted(r) =>
            /\ task'[r].lesson = users[task'[r].chat].currentLesson
            /\ task'[r].lesson < totalLessons
            /\ \A d \in task[r].attempted : d < task'[r].chat
       /\ (Visited(r) /\ task'[r].kind # "idle") =>
            \A c \in PassedOver(r) :
              users[c].currentLesson >= totalLessons]_vars

\* A run is sending a subscriber a lesson other than the one the record
\* was at when the timer fired: the record moved while the run was busy
\* with an earlier entry.
C31_Witness ==
  \E r \in Runs :
    /\ task[r].kind = "tick"
    /\ task[r].pc = "text"
    /\ task[r].attempted # {task[r].chat}
    /\ task[r].lesson # task[r].snapshot[task[r].chat]

\* A call of sendLessonToUser for chat c has not returned yet.
InFlight(c) ==
  \E t \in Tasks :
    /\ task[t].viaUser
    /\ task[t].chat = c
    /\ task[t].pc \in {"unavail", "image", "text", "audio", "video",
                       "congrats", "write", "rename"}

(***************************************************************************)
(* C32.  Whenever no delivery for a subscriber is in flight, the lessons   *)
(* whose text /start and the timer runs have delivered to it in full are   *)
(* exactly those of index 0 to currentLesson - 1.                          *)
(***************************************************************************)
C32_ProgressCountsDelivered ==
  \A c \in DOMAIN users :
    ~InFlight(c) => LessonsDelivered(c) = 0..(users[c].currentLesson - 1)

(***************************************************************************)
(* C33.  From a fresh store, every subscriber record has lastSentAt null   *)
(* exactly when its currentLesson is 0.                                    *)
(***************************************************************************)
C33_StampIffProgress ==
  \A c \in DOMAIN users :
    (users[c].lastSentAt = NULL) <=> (users[c].currentLesson = 0)

\* One subscriber has been advanced by a delivery and carries a stamp while
\* another, whose delivery failed in a timer run, is still at lesson 0
\* without one.
C33_Witness ==
  \E c \in DOMAIN users, d \in DOMAIN users :
    /\ users[c].currentLesson >= 1
    /\ users[c].lastSentAt # NULL
    /\ users[d].currentLesson = 0
    /\ users[d].lastSentAt = NULL
    /\ \E r \in Runs : d \in task[r].failed

\* Handler h is a /start on the way of a first registration for chat c:
\* anywhere from the save of line 259 to the help message of line 265.
Registering(h, c) ==
  /\ task[h].kind = "start"
  /\ task[h].chat = c
  /\ task[h].pc # "back"
  /\ ~(task[h].pc = "help" /\ ~task[h].viaUser)

\* Handler h took up a /start message in this step.
StartAsked(h) ==
  /\ task[h].kind = "idle"
  /\ task'[h].kind = "start"

(***************************************************************************)
(* C34.  A /start from a chat without a record creates the record in the   *)
(* step that looked for it, and a /start from a chat with a record takes   *)
(* the welcome-back branch and leaves the store alone; so of the /start    *)
(* handlers of one chat, however they interleave, at most one is ever on   *)
(* the way of a first registration, and only that one delivers: once its   *)
(* welcome message is sent it starts the delivery of lesson 0, and it      *)
(* delivers nothing else.                                                  *)
(***************************************************************************)
C34_OneRegistrationPerChat ==
  [][\A h \in Handlers :
       /\ StartAsked(h) =>
            LET c == task'[h].chat IN
            IF c \in DOMAIN users
            THEN /\ task'[h].pc = "back"
                 /\ users' = users
            ELSE /\ task'[h].pc = "regWrite"
                 /\ DOMAIN users' = DOMAIN users \cup {c}
                 /\ users'[c] = NewUserState
                 /\ \A o \in DOMAIN users : users'[o] = users[o]
                 /\ \A o \in Handlers : ~Registering(o, c)
       /\ (task[h].pc = "welcome" /\ Stepped(h)) =>
            \/ task'[h].pc \in {"unavail", "image"}
            \/ task'[h].kind = "idle"
       /\ (task'[h].kind = "start" /\ Stepped(h)) =>
            /\ task'[h].pc \in {"unavail", "image", "text", "audio", "video"}
                 => /\ task'[h].lesson = 0
                    /\ task[h].pc # "back"
            /\ \A o \in Handlers \ {h}, c \in Chats :
                 ~(Registering(h, c)' /\ Registering(o, c)')]_vars

\* Two /start handlers of one chat are at work together: the first is
\* sending the text of lesson 0, the second is at the welcome-back message.
C34_Witness ==
  \E h \in Handlers, o \in Handlers :
    /\ h # o
    /\ task[h].kind = "start"
    /\ task[o].kind = "start"
    /\ task[h].chat = task[o].chat
    /\ task[h].pc = "text"
    /\ task[o].pc = "back"
    /\ Cardinality(DOMAIN users) = 1

\* Where renameImages is to put the file f: at the number before, without
\* leading zeroes, when the number is 1 or more.
Renumbered(f) == IF f.number >= 1 THEN newName(f) ELSE f

\* The files stand for a set of numbers from 1 on: no two of them have the
\* same number.
OnePerNumber(entries) ==
  \A i \in 1..Len(entries), j \in 1..Len(entries) :
    /\ entries[i].number >= 1
    /\ entries[i].number = entries[j].number => i = j

(***************************************************************************)
(* C35.  When renameImages has run on a directory with one file            *)
(* devine-name-<n>.<ext> for each of a set of numbers n >= 1, every file   *)
(* is at number n - 1 without leading zeroes, no rename having been held   *)
(* up by a file not yet renamed, and no file is lost: the directory holds  *)
(* as many files as before.                                                *)
(***************************************************************************)
C35_AllRenumbered ==
  (images.pc = "done" /\ OnePerNumber(images.entries)) =>
    /\ images.dir = {Renumbered(f) : f \in Range(images.entries)}
    /\ Cardinality(images.dir) = Len(images.entries)

\* The lessons a file content holds: those of its array, none otherwise.
Stored(file) ==
  IF file = ABSENT THEN <<>>
  ELSE IF ~file[1].array THEN <<>>
  ELSE file[1].lessons

IsPrefix(a, b) == Len(a) <= Len(b) /\ SubSeq(b, 1, Len(a)) = a

\* The lessons a run with --resume finds in the output file.
Found == IF generator.resume THEN Stored(generator.existing) ELSE <<>>

Requested == generator'.requests = generator.requests + 1

(***************************************************************************)
(* C37.  callChatGPT makes at most MAX_RETRIES + 1 requests for one        *)
(* lesson, request number attempt + 1 being that of attempt `attempt`.  A  *)
(* request that succeeds ends the call: the lesson is pushed and written   *)
(* and the next request is for the next day.  A request that fails in an   *)
(* attempt before MAX_RETRIES is followed, after the delay, by the next    *)
(* attempt for the same day.  A request that fails in attempt MAX_RETRIES  *)
(* ends the run, with the lessons in memory and the file as they were: no *)
(* lesson of that day has been kept.                                       *)
(***************************************************************************)
C37_BoundedRetries ==
  [][/\ generator'.requests <= MAX_RETRIES + 1
     /\ Requested =>
          /\ generator.pc = "request"
          /\ generator'.requests = generator.attempt + 1
          /\ \/ /\ generator'.pc = "write"
                /\ generator'.lessons =
                     Append(generator.lessons, Lesson(generator.day, "this"))
             \/ /\ generator.attempt < MAX_RETRIES
                /\ generator'.pc = "backoff"
                /\ generator'.lessons = generator.lessons
             \/ /\ generator.attempt = MAX_RETRIES
                /\ generator'.pc = "failed"
                /\ generator'.lessons = generator.lessons
                /\ generator'.file = generator.file
                /\ Len(generator'.lessons) < generator.day
     /\ generator.pc = "backoff" =>
          /\ generator'.pc = "request"
          /\ generator'.attempt = generator.attempt + 1
          /\ generator'.day = generator.day
     /\ generator.pc \in {"write", "rename"} =>
          /\ ~Requested
          /\ generator'.pc = "request" =>
               /\ generator'.day = generator.day + 1
               /\ generator'.attempt = 0
               /\ generator'.requests = 0
     /\ generator.pc = "failed" => generator' = generator]_vars

\* The run has ended at day 2 after MAX_RETRIES + 1 failed requests, the
\* first lesson having taken two.
C37_Witness ==
  /\ generator.pc = "failed"
  /\ generator.day = 2
  /\ generator.requests = MAX_RETRIES + 1
  /\ generator.attempt = MAX_RETRIES
  /\ Len(Stored(generator.file)) = 1
  /\ Len(generator.lessons) = 1

\* Item i of the input is one the run has to render: it is not blank, and
\* it has no file yet or the run is to overwrite.
ToRender(i) ==
  /\ trim(tts.lines[i]) # <<>>
  /\ tts.overwrite \/ ~existsAsFile(tts.existing, toPadded(i))

(***************************************************************************)
(* C38.  In a run of tts_lessons without --overwrite, a file that was in   *)
(* the output directory under a name of the run is never asked for again   *)
(* and stays as it was.  The counter of the loop is the 1-based position   *)
(* of the item in hand, whatever was passed by before, so that whatever    *)
(* the run writes for item i is at lesson_<i padded to three digits>.      *)
(* And an item that failed, its retries spent, does not end the loop:      *)
(* when the run is over every item it had to render has been asked for.    *)
(***************************************************************************)
C38_ResumableRendering ==
  tts.pc # "idle" =>
    /\ ~tts.overwrite =>
         \A i \in 1..Len(tts.lines) :
           existsAsFile(tts.existing, toPadded(i)) =>
             /\ i \notin tts.asked
             /\ tts.out[toPadded(i)] = tts.existing[toPadded(i)]
    /\ tts.idx = position
    /\ \A name \in DOMAIN tts.out :
         tts.out[name].run = "this" =>
           /\ name = toPadded(tts.out[name].item)
           /\ ToRender(tts.out[name].item)
    /\ \A i \in tts.asked : ToRender(i)
    /\ tts.pc = "done" =>
         /\ position = Len(tts.lines)
         /\ \A i \in 1..Len(tts.lines) : ToRender(i) => i \in tts.asked

\* A run without --overwrite is over: it passed by item 1, which had its
\* file, item 2 failed after all its attempts, and item 3 was written to
\* lesson_003.
C38_Witness ==
  /\ tts.pc = "done"
  /\ ~tts.overwrite
  /\ Len(tts.lines) = 3
  /\ existsAsFile(tts.existing, toPadded(1))
  /\ tts.out[toPadded(1)] = Entry("file", "earlier", 0)
  /\ 2 \in tts.failed
  /\ toPadded(2) \notin DOMAIN tts.out
  /\ toPadded(3) \in DOMAIN tts.out
  /\ tts.out[toPadded(3)] = Entry("file", "this", 3)
  /\ toPadded(3) = <<0, 0, 3>>
=============================================================================
